---- MODULE Spec2Model ----
(***************************************************************************)
(* Maverick poker engine: the card model and the Deck (core/cards.py), the *)
(* hand evaluator (core/evaluator.py), the outs calculator (core/outs.py)  *)
(* and the Monte Carlo simulator (core/simulator.py): its result cache,    *)
(* the dealing of its trials, and concurrent calls on one simulator.       *)
(* The pre-flop equity table (core/equity_tables.py), the DecisionEngine   *)
(* (core/decision.py) and the hand-history parser (data/parser.py) follow. *)
(*                                                                         *)
(* A card is a record [rank, suit]; a Rank is modelled by its value_int    *)
(* (2..14, Ace = 14) and a Suit by a one-letter string.  Python lists are  *)
(* sequences, so the order of the input cards is part of the input: the    *)
(* code's Counter objects iterate in first-occurrence order and sorted()   *)
(* is stable.                                                              *)
(***************************************************************************)
EXTENDS Integers, Sequences, FiniteSets, TLC

VARIABLES
    cards,            \* evaluate_hand: the argument list
    eval_result,      \* evaluate_hand: what the call returned (or raised)
    player_hand,      \* calculate_outs / simulate: the hole cards
    community_cards,  \* calculate_outs / simulate: the board
    outs_result,      \* calculate_outs: what the call returned
    result_cache,     \* MonteCarloSimulator._result_cache: cache key -> result
    pc,               \* simulate: where the call in progress stands
    num_simulations,  \* simulate: argument
    num_opponents,    \* simulate: argument
    use_cache,        \* simulate: argument
    batch_start,      \* _vectorized_simulate: start of the current batch
    player_scores,    \* _vectorized_simulate: scores of the batch's trials so far
    opponent_scores,  \* _vectorized_simulate: one row of opponent scores per trial
    stats,            \* _vectorized_simulate: wins, splits, losses so far
    sim_result,       \* simulate: the value returned (or the error raised)
    trials_run,       \* history: trials evaluated by the call in progress
    returned_for,     \* history: scenario -> result first returned with use_cache
    deck_cards,       \* Deck.cards
    draw_result,      \* Deck.draw: the argument and what the last call returned
    drawn_since_reset, \* history: the cards returned by draws since the last reset
    remaining_deck,   \* _vectorized_simulate: the cards not in hole or board
    sim_deck,         \* _vectorized_simulate: the trial's copy of remaining_deck
    opponent_hands,   \* _vectorized_simulate: the opponents' hands of the trial
    new_community,    \* _vectorized_simulate: the cards that complete the board
    threads,          \* concurrent simulate() calls: thread -> position and result
    equity_hand,      \* get_hand_notation / get_preflop_equity: the two cards
    notation_result,  \* get_hand_notation: what the call returned
    equity_result,    \* get_preflop_equity: what the call returned
    thresholds,       \* DecisionEngine.thresholds
    last_style,       \* history: the style of the last adjust_strategy call
    decision,         \* recommend_move: the arguments and what the call returned
    parse_pc,         \* parse_file: between two sections, or in the loop over the actions
    community_strs,   \* parse_file: the local community_cards (card strings)
    current_street,   \* parse_file: local
    actions_by_street, \* parse_file: local
    hole_cards,       \* parse_file: local (unbound until a section has 'actions')
    parsed_hands,     \* parse_file: the hands emitted so far
    section_lines,    \* history: the action lines read in the section in progress
    section_log,      \* history: for each emitted hand, the lines of its section
    lines_read,       \* history: number of action lines read in the file
    sections_read     \* history: number of sections read in the file

evalVars == <<cards, eval_result>>

outsVars == <<player_hand, community_cards, outs_result>>

callVars == <<pc, num_simulations, num_opponents, use_cache, batch_start,
              player_scores, opponent_scores, stats, sim_result, trials_run>>

simVars == <<result_cache, callVars, returned_for>>

deckVars == <<deck_cards, draw_result, drawn_since_reset>>

dealVars == <<remaining_deck, sim_deck, opponent_hands, new_community>>

equityVars == <<equity_hand, notation_result, equity_result>>

decisionVars == <<thresholds, last_style, decision>>

parserVars == <<parse_pc, community_strs, current_street, actions_by_street, hole_cards,
                parsed_hands, section_lines, section_log, lines_read, sections_read>>

extVars == <<equityVars, decisionVars, parserVars>>

vars == <<cards, eval_result, player_hand, community_cards, outs_result, simVars,
          deckVars, dealVars, threads, extVars>>

(***************************************************************************)
(* core/cards.py                                                           *)
(***************************************************************************)
Suits == <<"H", "D", "C", "S">>

Ranks == 2..14

ACE == 14

Card(r, s) == [rank |-> r, suit |-> s]

SuitSet == {Suits[i] : i \in 1..Len(Suits)}

AllCards == {Card(r, s) : r \in Ranks, s \in SuitSet}

(***************************************************************************)
(* Python built-ins used by the code                                       *)
(***************************************************************************)
\* The elements of a list as a set.
Elems(s) == {s[i] : i \in 1..Len(s)}

\* Counter(s)[x]
Count(s, x) == Cardinality({i \in 1..Len(s) : s[i] = x})

\* The keys of Counter(s), in the order items() yields them: first occurrence.
RECURSIVE CounterKeys(_)
CounterKeys(s) ==
    IF s = <<>> THEN <<>>
    ELSE LET rest == CounterKeys(SubSeq(s, 1, Len(s) - 1))
             x == s[Len(s)]
         IN  IF x \in Elems(rest) THEN rest ELSE Append(rest, x)

\* sorted(set(S)) for a set of integers.
RECURSIVE SortedSet(_)
SortedSet(S) ==
    IF S = {} THEN <<>>
    ELSE LET m == CHOOSE x \in S : \A y \in S : x <= y
         IN  <<m>> \o SortedSet(S \ {m})

\* sorted(s, key=..., reverse=rev), k[i] being the key of s[i].  The sort is
\* stable, also with reverse=True: equal keys keep their input order.
Sorted(s, k, rev) ==
    LET n == Len(s)
        before(j, i) == \/ IF rev THEN k[j] > k[i] ELSE k[j] < k[i]
                        \/ k[j] = k[i] /\ j < i
        pos(i) == 1 + Cardinality({j \in 1..n : before(j, i)})
    IN  [p \in 1..n |-> s[CHOOSE i \in 1..n : pos(i) = p]]

\* key=lambda x: x.rank.value_int
RankKey(s) == [i \in 1..Len(s) |-> s[i].rank]

\* max(s, key=lambda x: x.rank.value_int): the first element of maximal key.
MaxByRank(s) ==
    s[CHOOSE i \in 1..Len(s) :
        \A j \in 1..Len(s) : s[j].rank < s[i].rank \/ (s[j].rank = s[i].rank /\ i <= j)]

\* s[:n]
Take(s, n) == SubSeq(s, 1, IF n < Len(s) THEN n ELSE Len(s))

\* list(range(a, a + 5))
Range5(a) == [t \in 1..5 |-> a + t - 1]

\* Lexicographic order of two lists of integers of the same length.
LexLess(a, b) ==
    \E i \in 1..Len(a) : a[i] < b[i] /\ \A j \in 1..(i - 1) : a[j] = b[j]

\* max(ss) for a non-empty list of lists of integers.
MaxList(ss) == ss[CHOOSE i \in 1..Len(ss) : \A j \in 1..Len(ss) : ~LexLess(ss[i], ss[j])]

\* next(x for x in keys if test(x)): the index of the first key that is in
\* passing (the keys that pass the test), 0 if there is none.
FirstIndex(keys, passing) ==
    IF \E i \in 1..Len(keys) : keys[i] \in passing
    THEN CHOOSE i \in 1..Len(keys) :
             keys[i] \in passing /\ \A j \in 1..(i - 1) : keys[j] \notin passing
    ELSE 0

(***************************************************************************)
(* core/cards.py: Deck                                                     *)
(***************************************************************************)
\* [Card(rank, suit) for rank in Rank for suit in Suit] (cards.py:60-62)
FullDeck ==
    [k \in 1..(Cardinality(Ranks) * Len(Suits)) |->
        Card(2 + ((k - 1) \div Len(Suits)), Suits[1 + ((k - 1) % Len(Suits))])]

\* The orders of the elements of a set.
RECURSIVE Orders(_)
Orders(S) ==
    IF S = {} THEN {<<>>}
    ELSE UNION {{<<x>> \o o : o \in Orders(S \ {x})} : x \in S}

\* np.random.shuffle(s): the list in any order.
Shuffles(s) == {[i \in 1..Len(s) |-> s[o[i]]] : o \in Orders(1..Len(s))}

\* The position a slice bound n stands for in a list of length len: a
\* negative bound counts from the end, and every bound is clipped.
SliceBound(len, n) ==
    IF n < 0 THEN (IF len + n < 0 THEN 0 ELSE len + n)
    ELSE (IF n > len THEN len ELSE n)

\* Mutant of Drawn: one card too few.
Drawn_OneShort(deck, n) == SubSeq(deck, 1, SliceBound(Len(deck), n) - 1)

\* drawn = self.cards[:n] (cards.py:73)
Drawn(deck, n) == SubSeq(deck, 1, SliceBound(Len(deck), n))

\* self.cards = self.cards[n:] (cards.py:74)
Remaining(deck, n) == SubSeq(deck, SliceBound(Len(deck), n) + 1, Len(deck))

\* What Deck.draw(n) returned or raised; NoDraw when the last call on the
\* deck was not a draw.
DrawReturned(n, cs) == [status |-> "ok", n |-> n, cards |-> cs]

DrawRaised(n) == [status |-> "ValueError", n |-> n, cards |-> <<>>]

NoDraw == [status |-> "none", n |-> 0, cards |-> <<>>]

\* No Deck has been constructed.
NoDeck ==
    /\ deck_cards = <<>>
    /\ draw_result = NoDraw
    /\ drawn_since_reset = <<>>

(***************************************************************************)
(* core/evaluator.py                                                       *)
(***************************************************************************)
HIGH_CARD == 1
PAIR == 2
TWO_PAIR == 3
THREE_OF_A_KIND == 4
STRAIGHT == 5
FLUSH == 6
FULL_HOUSE == 7
FOUR_OF_A_KIND == 8
STRAIGHT_FLUSH == 9
ROYAL_FLUSH == 10

Returned(hr, cs) == [status |-> "ok", rank |-> hr, cards |-> cs]

ValueError == [status |-> "ValueError", rank |-> 0, cards |-> <<>>]

NotCalled == [status |-> "none", rank |-> 0, cards |-> <<>>]

\* values (or flush_values): sorted distinct ranks, with 1 APPENDED when an
\* Ace is present (evaluator.py:38-43 and 52-55).
StraightValues(cs) ==
    LET values == SortedSet({cs[i].rank : i \in 1..Len(cs)})
    IN  IF values # <<>> /\ values[Len(values)] = ACE THEN Append(values, 1) ELSE values

\* Mutant of StraightWindows: every window of five values counts as a run.
StraightWindows_AnyFive(values) ==
    [i \in 1..(Len(values) - 4) |-> SubSeq(values, i, i + 4)]

\* The windows values[i:i+5] that equal range(values[i], values[i]+5), in
\* the order of the loop (evaluator.py:45-47).
StraightWindows(values) ==
    LET windows == [i \in 1..(Len(values) - 4) |-> SubSeq(values, i, i + 4)]
    IN  SelectSeq(windows, LAMBDA w : w = Range5(w[1]))

\* Mutant of TooFewCards: only the empty list is refused.
TooFewCards_OnlyEmpty(cs) == Len(cs) < 1

\* if len(cards) < 5: raise ValueError (evaluator.py:30-31)
TooFewCards(cs) == Len(cs) < 5

evaluate_hand(cs) ==
    IF TooFewCards(cs) THEN ValueError
    ELSE
    LET suits_list == [i \in 1..Len(cs) |-> cs[i].suit]
        suit_keys == CounterKeys(suits_list)
        flush_idx == FirstIndex(suit_keys, {s \in SuitSet : Count(suits_list, s) >= 5})
        has_flush == flush_idx # 0
        flush_suit == suit_keys[flush_idx]
        straights == StraightWindows(StraightValues(cs))
        flush_cards == SelectSeq(cs, LAMBDA c : c.suit = flush_suit)
        flush_runs == StraightWindows(StraightValues(flush_cards))
        \* the loop returns at the first window that is a run
        sf_window == flush_runs[1]
        sf_sel == SelectSeq(flush_cards, LAMBDA c : c.rank \in Elems(sf_window))
        straight_flush_cards == Sorted(sf_sel, RankKey(sf_sel), FALSE)
        ranks_list == [i \in 1..Len(cs) |-> cs[i].rank]
        rank_keys == CounterKeys(ranks_list)
        cnt(r) == Count(ranks_list, r)
        has_count(n) == \E i \in 1..Len(rank_keys) : cnt(rank_keys[i]) = n
        first_with(n) == rank_keys[FirstIndex(rank_keys, {r \in Ranks : cnt(r) = n})]
        of_rank(r) == SelectSeq(cs, LAMBDA c : c.rank = r)
        not_rank(r) == SelectSeq(cs, LAMBDA c : c.rank # r)
        pairs == SelectSeq(rank_keys, LAMBDA r : cnt(r) = 2)
    IN
    IF has_flush /\ straights # <<>> /\ flush_runs # <<>> THEN
        IF straight_flush_cards[Len(straight_flush_cards)].rank = ACE
            /\ straight_flush_cards[Len(straight_flush_cards)].suit = flush_suit
        THEN Returned(ROYAL_FLUSH, straight_flush_cards)
        ELSE Returned(STRAIGHT_FLUSH, straight_flush_cards)
    ELSE IF has_count(4) THEN
        LET rank == first_with(4)
            kickers == not_rank(rank)
            hand == of_rank(rank) \o <<MaxByRank(kickers)>>
        IN  Returned(FOUR_OF_A_KIND, Sorted(hand, RankKey(hand), FALSE))
    ELSE IF has_count(3) /\ has_count(2) THEN
        LET three_rank == first_with(3)
            pair_rank == first_with(2)
            hand == SelectSeq(cs, LAMBDA c : c.rank \in {three_rank, pair_rank})
            \* key=(x.rank == three_rank, x.rank.value_int), as one integer
            key == [i \in 1..Len(hand) |->
                       (IF hand[i].rank = three_rank THEN 100 ELSE 0) + hand[i].rank]
        IN  Returned(FULL_HOUSE, Take(Sorted(hand, key, TRUE), 5))
    ELSE IF has_flush THEN
        Returned(FLUSH, Take(Sorted(flush_cards, RankKey(flush_cards), TRUE), 5))
    ELSE IF straights # <<>> THEN
        LET straight == MaxList(straights)
            hand == SelectSeq(cs, LAMBDA c : c.rank \in Elems(straight))
        IN  Returned(STRAIGHT, Sorted(hand, RankKey(hand), FALSE))
    ELSE IF has_count(3) THEN
        LET rank == first_with(3)
            others == not_rank(rank)
            kickers == Take(Sorted(others, RankKey(others), TRUE), 2)
            hand == of_rank(rank) \o kickers
        IN  Returned(THREE_OF_A_KIND, Sorted(hand, RankKey(hand), FALSE))
    ELSE IF Len(pairs) >= 2 THEN
        LET top == Take(Sorted(pairs, pairs, TRUE), 2)
            pair_cards == SelectSeq(cs, LAMBDA c : c.rank \in Elems(top))
            kickers == SelectSeq(cs, LAMBDA c : c.rank \notin Elems(top))
            hand == pair_cards \o <<MaxByRank(kickers)>>
        IN  Returned(TWO_PAIR, Sorted(hand, RankKey(hand), FALSE))
    ELSE IF has_count(2) THEN
        LET rank == first_with(2)
            others == not_rank(rank)
            kickers == Take(Sorted(others, RankKey(others), TRUE), 3)
            hand == of_rank(rank) \o kickers
        IN  Returned(PAIR, Sorted(hand, RankKey(hand), FALSE))
    ELSE Returned(HIGH_CARD, Take(Sorted(cs, RankKey(cs), TRUE), 5))

(***************************************************************************)
(* core/outs.py                                                            *)
(***************************************************************************)
DrawInfo(t, n, potential) == [draw_type |-> t, outs |-> n, potential_cards |-> potential]

\* The concatenation of a list of lists (successive all_draws.extend / append).
RECURSIVE ConcatAll(_)
ConcatAll(ss) ==
    IF ss = <<>> THEN <<>> ELSE ConcatAll(SubSeq(ss, 1, Len(ss) - 1)) \o ss[Len(ss)]

MinOf(S) == CHOOSE x \in S : \A y \in S : x <= y

MaxOf(S) == CHOOSE x \in S : \A y \in S : y <= x

\* Card(rank, suit) for every suit, for the ranks of R, minus the cards of held.
CardsOfRanks(R, held) == {Card(r, s) : r \in R, s \in SuitSet} \ held

check_flush_draw(ph, cc) ==
    LET all == ph \o cc
        count(s) == Cardinality({i \in 1..Len(all) : all[i].suit = s})
        potential_cards(s) == {Card(r, s) : r \in Ranks} \ Elems(all)
        draw(s) ==
            IF count(s) = 4
            THEN <<DrawInfo("flush_draw", 9, potential_cards(s))>>
            ELSE IF count(s) = 3 /\ Len(cc) <= 3
            THEN <<DrawInfo("backdoor_flush_draw", 3, potential_cards(s))>>
            ELSE <<>>
    IN  ConcatAll([i \in 1..Len(Suits) |-> draw(Suits[i])])

\* ranks: the sorted distinct ranks of hole and board, with 1 APPENDED when
\* an Ace is present (outs.py:113-118).
StraightRanks(ph, cc) ==
    LET all == ph \o cc
        sorted_ranks == SortedSet({all[i].rank : i \in 1..Len(all)})
    IN  IF ACE \in Elems(sorted_ranks) THEN Append(sorted_ranks, 1) ELSE sorted_ranks

\* Mutant of IsGutshotWindow: a window of four consecutive ranks is taken
\* for a gutshot.
IsGutshotWindow_Span3(window) ==
    Len(window) = 4 /\ MaxOf(Elems(window)) - MinOf(Elems(window)) = 3

\* len(window) == 4 and max(window) - min(window) == 4 (outs.py:142)
IsGutshotWindow(window) ==
    Len(window) = 4 /\ MaxOf(Elems(window)) - MinOf(Elems(window)) = 4

\* The windows ranks[i:j+1] of the gutshot loops that pass the test, in the
\* order of the loops (outs.py:139-142).
GutshotWindows(ranks) ==
    LET last(i) == IF i + 4 < Len(ranks) THEN i + 4 ELSE Len(ranks)
        row(i) == [t \in 1..(last(i) - (i + 3) + 1) |-> SubSeq(ranks, i, i + 2 + t)]
    IN  SelectSeq(ConcatAll([i \in 1..(Len(ranks) - 3) |-> row(i)]), IsGutshotWindow)

\* The ranks the generator of next() ranges over (outs.py:144-145): next()
\* returns the least of them and raises StopIteration when there is none.
MissingRanks(window) ==
    {r \in MinOf(Elems(window))..(MaxOf(Elems(window)) - 1) : r \notin Elems(window)}

\* check_straight_draw raises: some gutshot window has no missing rank.
StraightDrawRaises(ph, cc) ==
    LET windows == GutshotWindows(StraightRanks(ph, cc))
    IN  \E k \in 1..Len(windows) : MissingRanks(windows[k]) = {}

check_straight_draw(ph, cc) ==
    LET ranks == StraightRanks(ph, cc)
        open(i) ==
            LET window == Elems(SubSeq(ranks, i, i + 3))
                potential_ranks ==
                    {r \in {MinOf(window) - 1, MaxOf(window) + 1} : 2 <= r /\ r <= 14}
            IN  IF MaxOf(window) - MinOf(window) = 3 /\ potential_ranks # {}
                THEN <<DrawInfo("open_straight_draw", 4 * Cardinality(potential_ranks),
                                CardsOfRanks(potential_ranks, {}))>>
                ELSE <<>>
        windows == GutshotWindows(ranks)
        gutshot(window) ==
            LET missing_rank == MinOf(MissingRanks(window))
            IN  IF 2 <= missing_rank /\ missing_rank <= 14
                THEN <<DrawInfo("gutshot_straight_draw", 4, CardsOfRanks({missing_rank}, {}))>>
                ELSE <<>>
    IN  ConcatAll([i \in 1..(Len(ranks) - 3) |-> open(i)])
        \o ConcatAll([k \in 1..Len(windows) |-> gutshot(windows[k])])

check_pair_draws(ph, cc) ==
    LET set_draw ==
            IF Len(ph) = 2 /\ ph[1].rank = ph[2].rank
            THEN <<DrawInfo("pair_to_set", 2, CardsOfRanks({ph[1].rank}, Elems(ph \o cc)))>>
            ELSE <<>>
        overcards ==
            IF cc = <<>> /\ ph[1].rank > 10 /\ ph[2].rank > 10 /\ ph[1].rank # ph[2].rank
            THEN <<DrawInfo("two_overcards", 6, CardsOfRanks({ph[1].rank, ph[2].rank}, Elems(ph)))>>
            ELSE <<>>
    IN  set_draw \o overcards

\* rank_counts = Counter(card.rank for card in all_cards): the ranks in
\* items() order that occur exactly n times.
RanksWithCount(all, n) ==
    LET ranks_list == [i \in 1..Len(all) |-> all[i].rank]
    IN  SelectSeq(CounterKeys(ranks_list), LAMBDA r : Count(ranks_list, r) = n)

check_full_house_draws(ph, cc) ==
    LET all_cards == ph \o cc
        trips == RanksWithCount(all_cards, 3)
        remaining_ranks == RanksWithCount(all_cards, 1)
        trips_cards == CardsOfRanks(Elems(remaining_ranks), Elems(all_cards))
        trips_draw ==
            IF trips # <<>> /\ trips_cards # {}
            THEN <<DrawInfo("trips_to_full_house", Cardinality(trips_cards), trips_cards)>>
            ELSE <<>>
        pairs == RanksWithCount(all_cards, 2)
        pair_draw(pair_rank) ==
            LET potential_cards == CardsOfRanks({pair_rank}, Elems(all_cards))
            IN  IF potential_cards # {}
                THEN <<DrawInfo("two_pair_to_full_house", Cardinality(potential_cards),
                                potential_cards)>>
                ELSE <<>>
        pair_draws ==
            IF Len(pairs) = 2 THEN pair_draw(pairs[1]) \o pair_draw(pairs[2]) ELSE <<>>
    IN  trips_draw \o pair_draws

check_quads_draw(ph, cc) ==
    LET all_cards == ph \o cc
        trips == RanksWithCount(all_cards, 3)
        potential_cards == CardsOfRanks({trips[1]}, Elems(all_cards))
    IN  IF trips # <<>> /\ potential_cards # {}
        THEN <<DrawInfo("set_to_quads", Cardinality(potential_cards), potential_cards)>>
        ELSE <<>>

\* Mutant of check_two_pair_draws: the draw is reported even when no card
\* would make the second pair.
check_two_pair_draws_NoEmptyTest(ph, cc) ==
    LET all_cards == ph \o cc
        pairs == RanksWithCount(all_cards, 2)
        unpaired_ranks == RanksWithCount(all_cards, 1)
        potential_cards == CardsOfRanks(Elems(unpaired_ranks), Elems(all_cards))
    IN  IF Len(pairs) = 1
        THEN <<DrawInfo("pair_to_two_pair", Cardinality(potential_cards), potential_cards)>>
        ELSE <<>>

check_two_pair_draws(ph, cc) ==
    LET all_cards == ph \o cc
        pairs == RanksWithCount(all_cards, 2)
        unpaired_ranks == RanksWithCount(all_cards, 1)
        potential_cards == CardsOfRanks(Elems(unpaired_ranks), Elems(all_cards))
    IN  IF Len(pairs) = 1 /\ potential_cards # {}
        THEN <<DrawInfo("pair_to_two_pair", Cardinality(potential_cards), potential_cards)>>
        ELSE <<>>

check_combo_draws(ph, cc) ==
    LET has_pair == RanksWithCount(ph \o cc, 2) # <<>>
        gutshot_draws ==
            SelectSeq(check_straight_draw(ph, cc),
                      LAMBDA d : d.draw_type = "gutshot_straight_draw")
        potential_cards ==
            UNION {gutshot_draws[i].potential_cards : i \in 1..Len(gutshot_draws)}
    IN  IF has_pair /\ gutshot_draws # <<>>
        THEN <<DrawInfo("pair_plus_gutshot", Cardinality(potential_cards), potential_cards)>>
        ELSE <<>>

\* Mutant of TotalOuts: the sizes of the draws' sets are added up.
RECURSIVE TotalOuts_Summed(_)
TotalOuts_Summed(all_draws) ==
    IF all_draws = <<>> THEN 0
    ELSE Cardinality(Head(all_draws).potential_cards) + TotalOuts_Summed(Tail(all_draws))

\* len(all_potential_cards), the set updated with every draw's
\* potential_cards (outs.py:350-354).
TotalOuts(all_draws) ==
    Cardinality(UNION {all_draws[i].potential_cards : i \in 1..Len(all_draws)})

\* What calculate_outs does when a check raises: the exception propagates.
OutsError(e) == [status |-> e, total |-> 0, draws |-> <<>>]

calculate_outs(ph, cc) ==
    IF StraightDrawRaises(ph, cc) THEN OutsError("StopIteration")
    ELSE
    LET all_draws ==
            check_flush_draw(ph, cc) \o check_straight_draw(ph, cc)
            \o check_pair_draws(ph, cc) \o check_full_house_draws(ph, cc)
            \o check_quads_draw(ph, cc) \o check_two_pair_draws(ph, cc)
            \o check_combo_draws(ph, cc)
    IN  [status |-> "ok", total |-> TotalOuts(all_draws), draws |-> all_draws]

(***************************************************************************)
(* core/simulator.py                                                       *)
(***************************************************************************)
\* Rank.value and Suit.value as code points: '2'..'9', 'T', 'J', 'Q', 'K',
\* 'A' and the suit symbols U+2665, U+2666, U+2663, U+2660 (cards.py:5-24).
RankChar(r) ==
    CASE r = 10 -> 84 [] r = 11 -> 74 [] r = 12 -> 81 [] r = 13 -> 75 [] r = 14 -> 65
      [] OTHER -> 48 + r

SuitChar(s) ==
    CASE s = "H" -> 9829 [] s = "D" -> 9830 [] s = "C" -> 9827 [] s = "S" -> 9824

\* str(card): two characters.
CardStr(c) == <<RankChar(c.rank), SuitChar(c.suit)>>

\* ''.join(sorted(str(card) for card in cs)): the strings in code-point
\* order (two-character strings compare by first, then second character).
JoinSorted(cs) ==
    LET strs == [i \in 1..Len(cs) |-> CardStr(cs[i])]
        key == [i \in 1..Len(cs) |-> strs[i][1] * 100000 + strs[i][2]]
    IN  ConcatAll(Sorted(strs, key, FALSE))

\* Mutant of _get_cache_key: the community cards are joined unsorted.
_get_cache_key_unsorted(ph, cc, opp) ==
    <<JoinSorted(ph), ConcatAll([i \in 1..Len(cc) |-> CardStr(cc[i])]), opp>>

\* f"{player_str}|{community_str}|{num_opponents}": neither card string
\* holds a '|', so the key is the triple of its three fields.
_get_cache_key(ph, cc, opp) == <<JoinSorted(ph), JoinSorted(cc), opp>>

\* Mutant of BatchLosses: the splits are not taken off.
BatchLosses_NoSplits(current_batch_size, wins, splits) == current_batch_size - wins

\* losses = current_batch_size - wins - splits
BatchLosses(current_batch_size, wins, splits) == current_batch_size - wins - splits

\* np.min(opponent_scores, axis=1)[i]
\* Mutant of MinOpponentScore: the weakest opponent is the one compared with.
MinOpponentScore_Max(row) == MaxOf(Elems(row))

MinOpponentScore(row) == MinOf(Elems(row))

NoStats == [wins |-> 0, splits |-> 0, losses |-> 0]

\* (win_probability, stats); win_probability = (wins + 0.5 * splits) /
\* num_simulations is kept as the exact fraction (2 wins + splits) / (2 n).
SimResult(st, n) ==
    [status |-> "ok",
     win_probability |-> <<2 * st.wins + st.splits, 2 * n>>,
     stats |-> st]

SimError(e) == [status |-> e, win_probability |-> <<0, 1>>, stats |-> NoStats]

NoResult == SimError("none")

\* An empty dict, and d[k] = v.
EmptyMap == [k \in {} |-> NoResult]

Put(m, k, v) == [x \in DOMAIN m \cup {k} |-> IF x = k THEN v ELSE m[x]]

(***************************************************************************)
(* Inputs of the evaluator: every set of at most MaxHandSize cards of      *)
(* EvalDeck, listed in deck order or in reverse deck order.  EvalDeck      *)
(* holds what the evaluator's cases need: ten hearts (2-5 and 9-A, so a    *)
(* wheel, a six-card suited run and a royal flush), three more aces, two   *)
(* more kings and two low cards of other suits (pairs, triples, quads).    *)
(***************************************************************************)
HoleSize == 2

MaxBoard == 5

MaxHandSize == HoleSize + MaxBoard

EvalDeckSize == 17

EvalDeckOrder ==
    << Card(2, "H"), Card(2, "C"), Card(3, "H"), Card(3, "D"), Card(4, "H"),
       Card(5, "H"), Card(9, "H"), Card(10, "H"), Card(11, "H"), Card(12, "H"),
       Card(13, "H"), Card(13, "D"), Card(13, "C"),
       Card(14, "H"), Card(14, "D"), Card(14, "C"), Card(14, "S"),
       Card(6, "D"), Card(8, "S"), Card(12, "C") >>

EvalDeck == Take(EvalDeckOrder, EvalDeckSize)

Reverse(s) == [i \in 1..Len(s) |-> s[Len(s) + 1 - i]]

InDeckOrder(S) == SelectSeq(EvalDeck, LAMBDA c : c \in S)

NoOuts == [status |-> "none", total |-> 0, draws |-> <<>>]

\* No trial is being dealt, and no thread calls simulate().
NoDeal ==
    /\ remaining_deck = <<>>
    /\ sim_deck = <<>>
    /\ opponent_hands = <<>>
    /\ new_community = <<>>
    /\ threads = <<>>

\* The value a call returned, and the absence of a call.
Got(v) == [status |-> "ok", value |-> v]

NotAsked == [status |-> "none"]

\* No equity lookup is made.
NoEquity ==
    /\ equity_hand = <<>>
    /\ notation_result = NotAsked
    /\ equity_result = NotAsked

\* No DecisionEngine is constructed.
NoEngine ==
    /\ thresholds = <<>>
    /\ last_style = "none"
    /\ decision = NotAsked

\* A street -> list map with no action (parser.py:149).
NoActions == [preflop |-> <<>>, flop |-> <<>>, turn |-> <<>>, river |-> <<>>]

\* The local hole_cards before its first assignment, and bound to a dict.
Unbound == [bound |-> FALSE, map |-> <<>>]

Bound(map) == [bound |-> TRUE, map |-> map]

\* parse_file has read no section yet (parser.py:103).
ParserStart ==
    /\ parse_pc = "sections"
    /\ community_strs = <<>>
    /\ current_street = "preflop"
    /\ actions_by_street = NoActions
    /\ hole_cards = Unbound
    /\ parsed_hands = <<>>
    /\ section_lines = <<>>
    /\ section_log = <<>>
    /\ lines_read = 0
    /\ sections_read = 0

NoExt ==
    /\ NoEquity
    /\ NoEngine
    /\ ParserStart

\* The simulator before any simulate() call (simulator.py:10-36).
SimIdle ==
    /\ result_cache = EmptyMap
    /\ pc = "idle"
    /\ num_simulations = 0
    /\ num_opponents = 0
    /\ use_cache = FALSE
    /\ batch_start = 0
    /\ player_scores = <<>>
    /\ opponent_scores = <<>>
    /\ stats = NoStats
    /\ sim_result = NoResult
    /\ trials_run = 0
    /\ returned_for = EmptyMap

EvalInit ==
    /\ SimIdle
    /\ NoExt
    /\ NoDeck
    /\ NoDeal
    /\ player_hand = <<>>
    /\ community_cards = <<>>
    /\ outs_result = NoOuts
    /\ \E S \in SUBSET Elems(EvalDeck) :
          /\ Cardinality(S) <= MaxHandSize
          /\ \E rev \in BOOLEAN :
                cards = IF rev THEN Reverse(InDeckOrder(S)) ELSE InDeckOrder(S)
    /\ eval_result = NotCalled

\* HandEvaluator.evaluate_hand(cards)
EvaluateHand ==
    /\ eval_result = NotCalled
    /\ eval_result' = evaluate_hand(cards)
    /\ UNCHANGED <<cards, outsVars, simVars, deckVars, dealVars, threads, extVars>>

EvalNext == EvaluateHand

SpecEval == EvalInit /\ [][EvalNext]_vars

(***************************************************************************)
(* Inputs of the outs calculator: two hole cards and a board of at most    *)
(* MaxBoard further cards of OutsDeck, both in deck order or both in       *)
(* reverse deck order.  OutsDeck holds four low connected hearts (flush    *)
(* and straight draws, A-2-3-4), a six for the gutshots, three aces and    *)
(* two kings (overcards, pocket pairs, trips, two pair).                   *)
(***************************************************************************)
OutsDeckSize == 12

OutsDeckOrder ==
    << Card(2, "H"), Card(3, "H"), Card(3, "D"), Card(4, "H"), Card(5, "H"),
       Card(6, "D"), Card(9, "C"), Card(13, "H"), Card(13, "D"),
       Card(14, "H"), Card(14, "D"), Card(14, "C"),
       Card(7, "S"), Card(12, "H"), Card(10, "C") >>

OutsDeck == Take(OutsDeckOrder, OutsDeckSize)

InOutsOrder(S, rev) ==
    LET s == SelectSeq(OutsDeck, LAMBDA c : c \in S) IN IF rev THEN Reverse(s) ELSE s

OutsInit ==
    /\ SimIdle
    /\ NoExt
    /\ NoDeck
    /\ NoDeal
    /\ cards = <<>>
    /\ eval_result = NotCalled
    /\ outs_result = NoOuts
    /\ \E S \in SUBSET Elems(OutsDeck) :
          /\ Cardinality(S) >= HoleSize
          /\ Cardinality(S) <= HoleSize + MaxBoard
          /\ \E H \in SUBSET S :
                /\ Cardinality(H) = HoleSize
                /\ \E rev \in BOOLEAN :
                      /\ player_hand = InOutsOrder(H, rev)
                      /\ community_cards = InOutsOrder(S \ H, rev)

\* OutsCalculator.calculate_outs(player_hand, community_cards)
CalculateOuts ==
    /\ outs_result = NoOuts
    /\ outs_result' = calculate_outs(player_hand, community_cards)
    /\ UNCHANGED <<evalVars, player_hand, community_cards, simVars, deckVars, dealVars, threads, extVars>>

OutsNext == CalculateOuts

SpecOuts == OutsInit /\ [][OutsNext]_vars

(***************************************************************************)
(* The simulator as a state machine: one simulate() call at a time (the    *)
(* code is synchronous and single-threaded), taken through validation and  *)
(* cache lookup, the trials of each batch, the batch tally, and the        *)
(* result with its cache write.  The scores come from the external         *)
(* hand-ranking oracle (treys), lower being stronger: a trial's scores are *)
(* any values of Scores.  batch_size is 1000 in the code                   *)
(* (simulator.py:142); BatchSize scales it down with the trial counts, so  *)
(* that a call runs several batches.                                       *)
(***************************************************************************)
MaxSims == 2

BatchSize == 1

MaxScore == 2

Scores == 1..MaxScore

OpponentCounts == {1, 2}

SimHoles == { <<Card(14, "S"), Card(14, "H")>>, <<Card(14, "S")>> }

SimBoards ==
    { <<Card(2, "C"), Card(3, "D"), Card(4, "H")>>,
      <<Card(4, "H"), Card(2, "C"), Card(3, "D")>>,
      <<Card(2, "C"), Card(3, "D"), Card(4, "H"), Card(9, "S"), Card(11, "D"), Card(13, "C")>> }

SimInit ==
    /\ SimIdle
    /\ NoExt
    /\ NoDeck
    /\ NoDeal
    /\ cards = <<>>
    /\ eval_result = NotCalled
    /\ player_hand = <<>>
    /\ community_cards = <<>>
    /\ outs_result = NoOuts

\* batch_end - batch_start, batch_end = min(batch_start + batch_size, num_simulations)
current_batch_size ==
    (IF batch_start + BatchSize < num_simulations
     THEN batch_start + BatchSize ELSE num_simulations) - batch_start

\* Mutant of InvalidInput: the board's length is not tested.
InvalidInput_HoleOnly(ph, cc) == Len(ph) # HoleSize

\* simulate(), lines 234-237: the two tests that raise ValueError.
InvalidInput(ph, cc) == Len(ph) # HoleSize \/ Len(cc) > MaxBoard

\* simulate(), lines 234-243: validation and cache lookup.
SimulateCall(ph, cc, n, opp, uc) ==
    /\ pc = "idle"
    /\ player_hand' = ph
    /\ community_cards' = cc
    /\ num_simulations' = n
    /\ num_opponents' = opp
    /\ use_cache' = uc
    /\ IF InvalidInput(ph, cc)
       THEN pc' = "raised" /\ sim_result' = SimError("ValueError")
       ELSE IF uc /\ _get_cache_key(ph, cc, opp) \in DOMAIN result_cache
       THEN pc' = "returned" /\ sim_result' = result_cache[_get_cache_key(ph, cc, opp)]
       ELSE pc' = "simulating" /\ sim_result' = NoResult
    /\ UNCHANGED <<batch_start, player_scores, opponent_scores, stats, trials_run,
                   result_cache, returned_for, evalVars, outs_result, deckVars, dealVars, threads, extVars>>

\* _vectorized_simulate, lines 187-195: the scores of the next trial of the batch.
EvaluateTrial ==
    /\ pc = "simulating"
    /\ batch_start < num_simulations
    /\ Len(player_scores) < current_batch_size
    /\ \E p \in Scores : \E row \in [1..num_opponents -> Scores] :
          /\ player_scores' = Append(player_scores, p)
          /\ opponent_scores' = Append(opponent_scores, row)
    /\ trials_run' = trials_run + 1
    /\ UNCHANGED <<pc, num_simulations, num_opponents, use_cache, batch_start, stats,
                   sim_result, result_cache, returned_for, evalVars, outsVars, deckVars, dealVars, threads, extVars>>

\* _vectorized_simulate, lines 197-206: the batch's outcomes are added to stats.
TallyBatch ==
    /\ pc = "simulating"
    /\ batch_start < num_simulations
    /\ Len(player_scores) = current_batch_size
    /\ LET trials == 1..current_batch_size
           wins == Cardinality({i \in trials :
                                  player_scores[i] < MinOpponentScore(opponent_scores[i])})
           splits == Cardinality({i \in trials :
                                    player_scores[i] = MinOpponentScore(opponent_scores[i])})
           losses == BatchLosses(current_batch_size, wins, splits)
       IN  stats' = [wins |-> stats.wins + wins,
                     splits |-> stats.splits + splits,
                     losses |-> stats.losses + losses]
    /\ batch_start' = batch_start + BatchSize
    /\ player_scores' = <<>>
    /\ opponent_scores' = <<>>
    /\ UNCHANGED <<pc, num_simulations, num_opponents, use_cache, sim_result, trials_run,
                   result_cache, returned_for, evalVars, outsVars, deckVars, dealVars, threads, extVars>>

\* _vectorized_simulate, lines 208-211, and simulate(), lines 253-257: the
\* win probability (a division by num_simulations), the cache write, the return.
FinishSimulate ==
    /\ pc = "simulating"
    /\ batch_start >= num_simulations
    /\ IF num_simulations = 0
       THEN /\ pc' = "raised"
            /\ sim_result' = SimError("ZeroDivisionError")
            /\ UNCHANGED result_cache
       ELSE /\ pc' = "returned"
            /\ sim_result' = SimResult(stats, num_simulations)
            /\ result_cache' =
                 IF use_cache
                 THEN Put(result_cache,
                          _get_cache_key(player_hand, community_cards, num_opponents),
                          SimResult(stats, num_simulations))
                 ELSE result_cache
    /\ UNCHANGED <<num_simulations, num_opponents, use_cache, batch_start, player_scores,
                   opponent_scores, stats, trials_run, returned_for, evalVars, outsVars, deckVars, dealVars, threads, extVars>>

\* The scenario of the call in progress: hole cards, board cards in any
\* order, opponent count.
Scenario == <<player_hand, Elems(community_cards), num_opponents>>

\* The caller takes the result or the error; the simulator is idle again.
Return ==
    /\ pc \in {"returned", "raised"}
    /\ returned_for' =
         IF pc = "returned" /\ use_cache /\ Scenario \notin DOMAIN returned_for
         THEN Put(returned_for, Scenario, sim_result)
         ELSE returned_for
    /\ pc' = "idle"
    /\ player_hand' = <<>>
    /\ community_cards' = <<>>
    /\ num_simulations' = 0
    /\ num_opponents' = 0
    /\ use_cache' = FALSE
    /\ batch_start' = 0
    /\ stats' = NoStats
    /\ sim_result' = NoResult
    /\ trials_run' = 0
    /\ UNCHANGED <<player_scores, opponent_scores, result_cache, evalVars, outs_result,
                   deckVars, dealVars, threads, extVars>>

Next ==
    \/ \E ph \in SimHoles, cc \in SimBoards, n \in 0..MaxSims,
          opp \in OpponentCounts, uc \in BOOLEAN : SimulateCall(ph, cc, n, opp, uc)
    \/ EvaluateTrial
    \/ TallyBatch
    \/ FinishSimulate
    \/ Return

Spec == SimInit /\ [][Next]_vars

(***************************************************************************)
(* The Deck as a state machine: constructed (reset), then reset, shuffled  *)
(* and drawn from in any order.  The code builds the 52 cards of           *)
(* Rank x Suit; the model's deck holds the first DeckSize of them, so that *)
(* every order of the deck is a state.  draw(n) is called with every n     *)
(* from -1 to one more than the deck can hold.                             *)
(***************************************************************************)
DeckSize == 4

NewDeck == Take(FullDeck, DeckSize)

DrawCounts == (0 - 1)..(DeckSize + 1)

\* Deck.__init__ (cards.py:55-56): reset().
DeckInit ==
    /\ SimIdle
    /\ NoExt
    /\ cards = <<>>
    /\ eval_result = NotCalled
    /\ player_hand = <<>>
    /\ community_cards = <<>>
    /\ outs_result = NoOuts
    /\ deck_cards \in Shuffles(NewDeck)
    /\ draw_result = NoDraw
    /\ drawn_since_reset = <<>>
    /\ NoDeal

\* Deck.reset (cards.py:58-63): all the cards, then shuffle().
Deck_reset ==
    /\ deck_cards' \in Shuffles(NewDeck)
    /\ draw_result' = NoDraw
    /\ drawn_since_reset' = <<>>
    /\ UNCHANGED <<evalVars, outsVars, simVars, dealVars, threads, extVars>>

\* Deck.shuffle (cards.py:65-67)
Deck_shuffle ==
    /\ deck_cards' \in Shuffles(deck_cards)
    /\ draw_result' = NoDraw
    /\ UNCHANGED <<drawn_since_reset, evalVars, outsVars, simVars, dealVars, threads, extVars>>

\* Deck.draw(n) (cards.py:69-75)
Deck_draw(n) ==
    /\ IF n > Len(deck_cards)
       THEN /\ draw_result' = DrawRaised(n)
            /\ UNCHANGED <<deck_cards, drawn_since_reset>>
       ELSE /\ draw_result' = DrawReturned(n, Drawn(deck_cards, n))
            /\ deck_cards' = Remaining(deck_cards, n)
            /\ drawn_since_reset' = drawn_since_reset \o Drawn(deck_cards, n)
    /\ UNCHANGED <<evalVars, outsVars, simVars, dealVars, threads, extVars>>

DeckNext ==
    \/ Deck_reset
    \/ Deck_shuffle
    \/ \E n \in DrawCounts : Deck_draw(n)

SpecDeck == DeckInit /\ [][DeckNext]_vars

(***************************************************************************)
(* The dealing of the trials (simulator.py:149-176) as a state machine:    *)
(* the remaining deck is computed once, then every trial shuffles a copy   *)
(* of it, takes the opponents' hands out of the copy and deals the first   *)
(* cards of what is left to complete the board.  The scores of the cards   *)
(* dealt come from the oracle and are any values in the simulator's        *)
(* specification above, which therefore leaves the cards out.  The 52      *)
(* cards of the code are cut to the first DealDeckSize of them, the fewest *)
(* that complete the board for every opponent count of DealOpponents.      *)
(***************************************************************************)
MaxTrials == 2

DealOpponents == {1, 2}

DealDeckSize == HoleSize + MaxBoard + 2 * Cardinality(DealOpponents)

DealDeck == Take(FullDeck, DealDeckSize)

DealHole == <<Card(2, "H"), Card(3, "D")>>

\* Boards of 2 to 5 cards, each with the opponent counts it is dealt for.
DealBoards ==
    { <<<<Card(2, "D"), Card(4, "H")>>, {1}>>,
      <<<<Card(2, "D"), Card(4, "H"), Card(3, "S")>>, DealOpponents>>,
      <<<<Card(2, "D"), Card(4, "H"), Card(3, "S"), Card(2, "C")>>, DealOpponents>>,
      <<<<Card(2, "D"), Card(4, "H"), Card(3, "S"), Card(2, "C"), Card(4, "D")>>,
        DealOpponents>> }

\* _generate_remaining_deck (simulator.py:51-64): the cards of the deck, in
\* the order of the loops, that are not in hole or board.
_generate_remaining_deck(ph, cc) ==
    SelectSeq(DealDeck, LAMBDA c : c \notin Elems(ph \o cc))

\* Mutant of Remove: the card stays in the list.
Remove_Nothing(deck, card) == deck

\* remaining_deck.remove(card) (simulator.py:111, 117): the list without
\* the first occurrence of the card.
Remove(deck, card) ==
    LET k == CHOOSE i \in 1..Len(deck) :
                 deck[i] = card /\ \A j \in 1..(i - 1) : deck[j] # card
    IN  SubSeq(deck, 1, k - 1) \o SubSeq(deck, k + 1, Len(deck))

DealtHands(hs, deck) == [status |-> "ok", hands |-> hs, deck |-> deck]

DealRaised == [status |-> "ValueError", hands |-> <<>>, deck |-> <<>>]

\* _generate_opponent_hand (simulator.py:76-119): what the call can return
\* or raise for the opponents still to be dealt.  A hand is two cards at
\* distinct positions of the list (np.random.choice, replace=False): every
\* such hand can be the one kept, accepted by the filter or taken as the
\* fallback after 100 attempts, and its cards are removed from the list.
\* The call raises when the list has fewer than two cards, and when the
\* filter evaluates a hand with a board too short for evaluate_hand.
RECURSIVE _generate_opponent_hand(_, _, _)
_generate_opponent_hand(deck, cc, opponents) ==
    IF opponents = 0 THEN {DealtHands(<<>>, deck)}
    ELSE IF Len(deck) < 2 THEN {DealRaised}
    ELSE
    ( IF cc # <<>> /\ TooFewCards(<<deck[1], deck[2]>> \o cc) THEN {DealRaised} ELSE {} )
    \cup
    UNION { LET hand == <<deck[i], deck[j]>>
                rest == Remove(Remove(deck, hand[1]), hand[2])
            IN  { IF r.status = "ok"
                  THEN DealtHands(<<hand>> \o r.hands, r.deck)
                  ELSE DealRaised : r \in _generate_opponent_hand(rest, cc, opponents - 1) }
            : <<i, j>> \in {q \in (1..Len(deck)) \X (1..Len(deck)) : q[1] # q[2]} }

\* cards_to_deal = 5 - len(community_cards) (simulator.py:150)
cards_to_deal == MaxBoard - Len(community_cards)

\* _vectorized_simulate, lines 145-153: the remaining deck of the call.
StartDeal(ph, cc, n, opp) ==
    /\ pc = "idle"
    /\ player_hand' = ph
    /\ community_cards' = cc
    /\ num_simulations' = n
    /\ num_opponents' = opp
    /\ remaining_deck' = _generate_remaining_deck(ph, cc)
    /\ trials_run' = 0
    /\ pc' = "dealing"
    /\ UNCHANGED <<use_cache, batch_start, player_scores, opponent_scores, stats,
                   sim_result, result_cache, returned_for, sim_deck, opponent_hands,
                   new_community, evalVars, outs_result, deckVars, threads, extVars>>

\* _vectorized_simulate, lines 165-176: one trial of the loop.  The row of
\* community_completions has cards_to_deal columns, so storing fewer cards
\* raises.
DealTrial ==
    /\ pc = "dealing"
    /\ trials_run < num_simulations
    /\ \E shuffled \in Shuffles(remaining_deck) :
          \E opp_hands \in _generate_opponent_hand(shuffled, community_cards, num_opponents) :
             IF opp_hands.status = "ok" /\ Len(Take(opp_hands.deck, cards_to_deal)) = cards_to_deal
             THEN /\ sim_deck' = opp_hands.deck
                  /\ opponent_hands' = opp_hands.hands
                  /\ new_community' = Take(opp_hands.deck, cards_to_deal)
                  /\ pc' = "dealt"
                  /\ UNCHANGED sim_result
             ELSE /\ pc' = "raised"
                  /\ sim_result' = SimError("ValueError")
                  /\ UNCHANGED <<sim_deck, opponent_hands, new_community>>
    /\ UNCHANGED <<player_hand, community_cards, num_simulations, num_opponents, use_cache,
                   batch_start, player_scores, opponent_scores, stats, trials_run,
                   result_cache, returned_for, remaining_deck, evalVars, outs_result,
                   deckVars, threads, extVars>>

\* The loop goes on to the next trial: the trial's lists are dropped.
NextTrial ==
    /\ pc = "dealt"
    /\ trials_run' = trials_run + 1
    /\ sim_deck' = <<>>
    /\ opponent_hands' = <<>>
    /\ new_community' = <<>>
    /\ pc' = "dealing"
    /\ UNCHANGED <<player_hand, community_cards, num_simulations, num_opponents, use_cache,
                   batch_start, player_scores, opponent_scores, stats, sim_result,
                   result_cache, returned_for, remaining_deck, evalVars, outs_result,
                   deckVars, threads, extVars>>

\* The call ends, after its last trial or with the error raised.
EndDeal ==
    /\ \/ pc = "dealing" /\ trials_run = num_simulations
       \/ pc = "raised"
    /\ pc' = "idle"
    /\ player_hand' = <<>>
    /\ community_cards' = <<>>
    /\ num_simulations' = 0
    /\ num_opponents' = 0
    /\ trials_run' = 0
    /\ sim_result' = NoResult
    /\ remaining_deck' = <<>>
    /\ UNCHANGED <<use_cache, batch_start, player_scores, opponent_scores, stats,
                   result_cache, returned_for, sim_deck, opponent_hands, new_community,
                   evalVars, outs_result, deckVars, threads, extVars>>

DealNext ==
    \/ \E b \in DealBoards, n \in 1..MaxTrials :
          \E opp \in b[2] : StartDeal(DealHole, b[1], n, opp)
    \/ DealTrial
    \/ NextTrial
    \/ EndDeal

SpecDeal == SimInit /\ [][DealNext]_vars

(***************************************************************************)
(* Concurrent identical requests: the threads of Threads call simulate()   *)
(* on one simulator with the same hole, board and opponent count and       *)
(* use_cache = True.  A call is taken statement by statement: the cache    *)
(* lookup (simulator.py:240-243), the simulation (246-251), the cache      *)
(* write (254-255) and the return (257); the steps of different threads    *)
(* interleave.  The simulation returns counts that sum to num_simulations. *)
(***************************************************************************)
Threads == {1, 2}

SharedHole == <<Card(14, "S"), Card(14, "H")>>

SharedBoard == <<Card(2, "C"), Card(3, "D"), Card(4, "H")>>

SharedKey == _get_cache_key(player_hand, community_cards, num_opponents)

\* What _vectorized_simulate can return for n trials.
SimulationResults(n) ==
    {SimResult([wins |-> w, splits |-> sp, losses |-> n - w - sp], n) :
        <<w, sp>> \in {q \in (0..n) \X (0..n) : q[1] + q[2] <= n}}

Frame(p, res) == [pc |-> p, result |-> res]

ConcInit ==
    /\ cards = <<>>
    /\ eval_result = NotCalled
    /\ outs_result = NoOuts
    /\ NoDeck
    /\ NoExt
    /\ remaining_deck = <<>>
    /\ sim_deck = <<>>
    /\ opponent_hands = <<>>
    /\ new_community = <<>>
    /\ result_cache = EmptyMap
    /\ returned_for = EmptyMap
    /\ pc = "idle"
    /\ batch_start = 0
    /\ player_scores = <<>>
    /\ opponent_scores = <<>>
    /\ stats = NoStats
    /\ sim_result = NoResult
    /\ trials_run = 0
    /\ player_hand = SharedHole
    /\ community_cards = SharedBoard
    /\ num_opponents = 1
    /\ num_simulations \in 1..MaxSims
    /\ use_cache = TRUE
    /\ threads = [t \in Threads |-> Frame("idle", NoResult)]

ConcUnchanged ==
    UNCHANGED <<evalVars, outsVars, callVars, deckVars, dealVars, extVars>>

\* A thread calls simulate(); the arguments pass the validation.
Request(t) ==
    /\ threads[t].pc \in {"idle", "done"}
    /\ ~InvalidInput(player_hand, community_cards)
    /\ threads' = [threads EXCEPT ![t] = Frame("lookup", NoResult)]
    /\ UNCHANGED <<result_cache, returned_for>>
    /\ ConcUnchanged

\* simulate(), lines 240-243: the cached result is returned, if there is one.
Lookup(t) ==
    /\ threads[t].pc = "lookup"
    /\ threads' = [threads EXCEPT ![t] =
                      IF use_cache /\ SharedKey \in DOMAIN result_cache
                      THEN Frame("return", result_cache[SharedKey])
                      ELSE Frame("simulate", NoResult)]
    /\ UNCHANGED <<result_cache, returned_for>>
    /\ ConcUnchanged

\* simulate(), lines 246-251: result = self._vectorized_simulate(...)
RunSimulation(t) ==
    /\ threads[t].pc = "simulate"
    /\ \E res \in SimulationResults(num_simulations) :
          threads' = [threads EXCEPT ![t] = Frame("write", res)]
    /\ UNCHANGED <<result_cache, returned_for>>
    /\ ConcUnchanged

\* simulate(), lines 254-255: self._result_cache[cache_key] = result
WriteCache(t) ==
    /\ threads[t].pc = "write"
    /\ result_cache' = IF use_cache
                       THEN Put(result_cache, SharedKey, threads[t].result)
                       ELSE result_cache
    /\ threads' = [threads EXCEPT ![t] = Frame("return", threads[t].result)]
    /\ UNCHANGED returned_for
    /\ ConcUnchanged

\* simulate(), lines 243 and 257: the caller has the result.
ReturnResult(t) ==
    /\ threads[t].pc = "return"
    /\ threads' = [threads EXCEPT ![t] = Frame("done", threads[t].result)]
    /\ returned_for' =
         IF Scenario \notin DOMAIN returned_for
         THEN Put(returned_for, Scenario, threads[t].result)
         ELSE returned_for
    /\ UNCHANGED result_cache
    /\ ConcUnchanged

ConcNext ==
    \E t \in Threads :
        \/ Request(t)
        \/ Lookup(t)
        \/ RunSimulation(t)
        \/ WriteCache(t)
        \/ ReturnResult(t)

SpecConcurrent == ConcInit /\ [][ConcNext]_vars

(***************************************************************************)
(* core/equity_tables.py: the pre-flop equity table.  A notation is a      *)
(* string; an equity is kept in thousandths (0.852 is 852), so the default *)
(* 0.5 is 500.                                                             *)
(***************************************************************************)
\* Rank.value as a one-character string (cards.py:11-24).
RankValue(r) ==
    CASE r = 10 -> "T" [] r = 11 -> "J" [] r = 12 -> "Q" [] r = 13 -> "K" [] r = 14 -> "A"
      [] r = 2 -> "2" [] r = 3 -> "3" [] r = 4 -> "4" [] r = 5 -> "5" [] r = 6 -> "6"
      [] r = 7 -> "7" [] r = 8 -> "8" [] r = 9 -> "9"

PREFLOP_EQUITY_MAP ==
    "AA" :> 852 @@ "KK" :> 823 @@ "QQ" :> 799 @@ "JJ" :> 775
    @@ "TT" :> 751 @@ "99" :> 720 @@ "88" :> 690 @@ "77" :> 661
    @@ "66" :> 633 @@ "55" :> 605 @@ "44" :> 578 @@ "33" :> 551
    @@ "22" :> 524 @@ "AKs" :> 670 @@ "AQs" :> 662 @@ "AJs" :> 654
    @@ "ATs" :> 647 @@ "A9s" :> 624 @@ "A8s" :> 619 @@ "A7s" :> 614
    @@ "A6s" :> 609 @@ "A5s" :> 615 @@ "A4s" :> 611 @@ "A3s" :> 606
    @@ "A2s" :> 601 @@ "KQs" :> 632 @@ "KJs" :> 624 @@ "KTs" :> 617
    @@ "K9s" :> 593 @@ "QJs" :> 611 @@ "QTs" :> 604 @@ "Q9s" :> 580
    @@ "JTs" :> 599 @@ "J9s" :> 575 @@ "T9s" :> 570 @@ "AKo" :> 653
    @@ "AQo" :> 644 @@ "AJo" :> 635 @@ "ATo" :> 627 @@ "A9o" :> 602
    @@ "A8o" :> 596 @@ "A7o" :> 591 @@ "A6o" :> 586 @@ "A5o" :> 591
    @@ "A4o" :> 587 @@ "A3o" :> 582 @@ "A2o" :> 577 @@ "KQo" :> 612
    @@ "KJo" :> 603 @@ "KTo" :> 595 @@ "K9o" :> 569 @@ "QJo" :> 589
    @@ "QTo" :> 581 @@ "Q9o" :> 555 @@ "JTo" :> 575 @@ "J9o" :> 549
    @@ "T9o" :> 543

DefaultEquity == 500

\* Mutant of get_hand_notation: the cards are not put in rank order.
get_hand_notation_NoSort(card1, card2) ==
    IF card1.rank = card2.rank
    THEN RankValue(card1.rank) \o RankValue(card2.rank)
    ELSE RankValue(card1.rank) \o RankValue(card2.rank)
             \o (IF card1.suit = card2.suit THEN "s" ELSE "o")

get_hand_notation(card1, card2) ==
    LET swap == card2.rank > card1.rank
        c1 == IF swap THEN card2 ELSE card1
        c2 == IF swap THEN card1 ELSE card2
    IN  IF c1.rank = c2.rank
        THEN RankValue(c1.rank) \o RankValue(c2.rank)
        ELSE RankValue(c1.rank) \o RankValue(c2.rank)
                 \o (IF c1.suit = c2.suit THEN "s" ELSE "o")

\* Mutant of get_preflop_equity: a hand that is not in the table gets 0.
get_preflop_equity_DefaultZero(h) ==
    LET notation == get_hand_notation(h[1], h[2])
    IN  IF notation \in DOMAIN PREFLOP_EQUITY_MAP THEN PREFLOP_EQUITY_MAP[notation] ELSE 0

\* PREFLOP_EQUITY_MAP.get(notation, 0.5)
get_preflop_equity(h) ==
    LET notation == get_hand_notation(h[1], h[2])
    IN  IF notation \in DOMAIN PREFLOP_EQUITY_MAP
        THEN PREFLOP_EQUITY_MAP[notation]
        ELSE DefaultEquity

(***************************************************************************)
(* SpecEquity: the two functions are called on any two cards of the deck   *)
(* (the same card twice included).                                         *)
(***************************************************************************)
EquityInit ==
    /\ cards = <<>>
    /\ eval_result = NotCalled
    /\ player_hand = <<>>
    /\ community_cards = <<>>
    /\ outs_result = NoOuts
    /\ result_cache = EmptyMap
    /\ pc = "idle"
    /\ num_simulations = 0
    /\ num_opponents = 0
    /\ use_cache = FALSE
    /\ batch_start = 0
    /\ player_scores = <<>>
    /\ opponent_scores = <<>>
    /\ stats = NoStats
    /\ sim_result = NoResult
    /\ trials_run = 0
    /\ returned_for = EmptyMap
    /\ NoDeck
    /\ NoDeal
    /\ NoEngine
    /\ ParserStart
    /\ equity_hand \in AllCards \X AllCards
    /\ notation_result = NotAsked
    /\ equity_result = NotAsked

EquityUnchanged ==
    UNCHANGED <<cards, eval_result, player_hand, community_cards, outs_result, simVars,
                deckVars, dealVars, threads, decisionVars, parserVars>>

\* get_hand_notation(hand[0], hand[1])
GetHandNotation ==
    /\ notation_result = NotAsked
    /\ notation_result' = Got(get_hand_notation(equity_hand[1], equity_hand[2]))
    /\ UNCHANGED <<equity_hand, equity_result>>
    /\ EquityUnchanged

\* get_preflop_equity(equity_hand)
GetPreflopEquity ==
    /\ equity_result = NotAsked
    /\ equity_result' = Got(get_preflop_equity(equity_hand))
    /\ UNCHANGED <<equity_hand, notation_result>>
    /\ EquityUnchanged

EquityNext == GetHandNotation \/ GetPreflopEquity

SpecEquity == EquityInit /\ [][EquityNext]_vars

(***************************************************************************)
(* core/decision.py: the DecisionEngine.  Floats are kept as integers:     *)
(* a win probability in thousandths, a position multiplier and the         *)
(* raise_multiplier / min_raise_bb in tenths, so an adjusted probability   *)
(* and the three hand thresholds are in ten-thousandths (0.7 is 7000);     *)
(* pot_size, current_bet and stack_size are whole chips and a bet size is  *)
(* in hundredths of a chip.  A comparison with the quotient pot_odds is    *)
(* made on the cross-multiplied terms.                                     *)
(***************************************************************************)
FOLD == "Fold"

CHECK == "Check"

CALL == "Call"

RAISE == "Raise"

ALL_IN == "All-in"

\* Optional[float]: None
None == 0 - 1

GameState(pot, bet, stack, pos) ==
    [pot_size |-> pot, current_bet |-> bet, stack_size |-> stack, position |-> pos]

\* DecisionEngine.__init__
DefaultThresholds ==
    [strong_hand |-> 7000, medium_hand |-> 4500, weak_hand |-> 3000,
     raise_multiplier |-> 25, min_raise_bb |-> 25]

\* adjusted_probability > pot_odds + extra, for pot_odds of calculate_pot_odds
AbovePotOdds(adj, gs, extra) ==
    IF gs.current_bet <= 0
    THEN adj > extra
    ELSE (adj - extra) * (gs.pot_size + gs.current_bet) > gs.current_bet * 10000

calculate_raise_size(th, gs, win_probability) ==
    IF win_probability < th.medium_hand
    THEN None
    ELSE LET base_raise == gs.pot_size * th.raise_multiplier
                               * (IF win_probability > th.strong_hand THEN 15 ELSE 10)
             stack == gs.stack_size * 100
         IN  IF base_raise <= stack THEN base_raise ELSE stack

get_position_multiplier(position) ==
    CASE position = "early" -> 8
      [] position = "middle" -> 9
      [] position = "late" -> 11
      [] position = "button" -> 12
      [] position = "small_blind" -> 9
      [] position = "big_blind" -> 10
      [] OTHER -> 10

Move(action, bet_size) == [action |-> action, bet_size |-> bet_size]

recommend_move(th, win_probability, gs) ==
    LET adjusted_probability == win_probability * get_position_multiplier(gs.position)
        raise_size == calculate_raise_size(th, gs, adjusted_probability)
    IN  IF /\ 2 * gs.stack_size <= gs.pot_size
           /\ AbovePotOdds(adjusted_probability, gs, 1000)
           /\ adjusted_probability > 5000
        THEN Move(ALL_IN, gs.stack_size * 100)
        ELSE IF adjusted_probability > th.strong_hand
        THEN IF raise_size # None THEN Move(RAISE, raise_size) ELSE Move(CALL, None)
        ELSE IF /\ adjusted_probability > th.medium_hand
                /\ AbovePotOdds(adjusted_probability, gs, 0)
        THEN IF gs.current_bet = 0
             THEN IF raise_size # None THEN Move(RAISE, raise_size) ELSE Move(CHECK, None)
             ELSE Move(CALL, None)
        ELSE IF adjusted_probability < th.weak_hand
        THEN IF gs.current_bet = 0 THEN Move(CHECK, None) ELSE Move(FOLD, None)
        ELSE IF gs.current_bet = 0
        THEN Move(CHECK, None)
        ELSE IF AbovePotOdds(adjusted_probability, gs, 0)
        THEN Move(CALL, None)
        ELSE Move(FOLD, None)

adjust_strategy(th, player_style) ==
    CASE player_style = "tight" ->
            [th EXCEPT !.strong_hand = 7500, !.medium_hand = 5000, !.weak_hand = 3500]
      [] player_style = "loose" ->
            [th EXCEPT !.strong_hand = 6500, !.medium_hand = 4000, !.weak_hand = 2500]
      [] player_style = "aggressive" ->
            [th EXCEPT !.raise_multiplier = 30, !.min_raise_bb = 30]
      [] player_style = "passive" ->
            [th EXCEPT !.raise_multiplier = 20, !.min_raise_bb = 20]
      [] OTHER -> th

(***************************************************************************)
(* SpecDecision: one engine; adjust_strategy and recommend_move are called *)
(* in any order with arguments of the sets below.                          *)
(***************************************************************************)
Styles == {"tight", "loose", "aggressive", "passive", "balanced", "maniac"}

WinProbabilities == {0, 400, 600, 900}

Positions == {"early", "button", "dealer"}

PotSizes == {0, 10, 100}

CurrentBets == {0, 100}

StackSizes == {40, 1000}

DecisionInit ==
    /\ cards = <<>>
    /\ eval_result = NotCalled
    /\ player_hand = <<>>
    /\ community_cards = <<>>
    /\ outs_result = NoOuts
    /\ SimIdle
    /\ NoDeck
    /\ NoDeal
    /\ NoEquity
    /\ ParserStart
    /\ thresholds = DefaultThresholds
    /\ last_style = "none"
    /\ decision = NotAsked

DecisionUnchanged ==
    UNCHANGED <<cards, eval_result, player_hand, community_cards, outs_result, simVars,
                deckVars, dealVars, threads, equityVars, parserVars>>

\* engine.adjust_strategy(player_style)
AdjustStrategy ==
    \E player_style \in Styles :
        /\ thresholds' = adjust_strategy(thresholds, player_style)
        /\ last_style' = player_style
        /\ UNCHANGED decision
        /\ DecisionUnchanged

\* engine.recommend_move(win_probability, game_state)
RecommendMove ==
    \E win_probability \in WinProbabilities, pot \in PotSizes, bet \in CurrentBets,
       stack \in StackSizes, pos \in Positions :
        LET gs == GameState(pot, bet, stack, pos)
        IN  /\ decision' = [status |-> "ok", win_probability |-> win_probability,
                            game_state |-> gs,
                            move |-> recommend_move(thresholds, win_probability, gs)]
            /\ UNCHANGED <<thresholds, last_style>>
            /\ DecisionUnchanged

DecisionNext == AdjustStrategy \/ RecommendMove

SpecDecision == DecisionInit /\ [][DecisionNext]_vars

(***************************************************************************)
(* data/parser.py: HandHistoryParser.parse_file, from the point where the  *)
(* key-value lines of a section are in hand_data (lines 145-211).  A       *)
(* Python string is the sequence of its characters, and an action line is  *)
(* the list action.split() makes of it, so "d db AsKsQs" is                *)
(* << <<"d">>, <<"d","b">>, <<"A","s","K","s","Q","s">> >>.                  *)
(***************************************************************************)
Streets == <<"preflop", "flop", "turn", "river">>

DigitValue(ch) ==
    CASE ch = "0" -> 0 [] ch = "1" -> 1 [] ch = "2" -> 2 [] ch = "3" -> 3 [] ch = "4" -> 4
      [] ch = "5" -> 5 [] ch = "6" -> 6 [] ch = "7" -> 7 [] ch = "8" -> 8 [] ch = "9" -> 9
      [] OTHER -> None

RECURSIVE Decimal(_)
Decimal(str) ==
    IF Len(str) = 1
    THEN DigitValue(str[1])
    ELSE 10 * Decimal(SubSeq(str, 1, Len(str) - 1)) + DigitValue(str[Len(str)])

\* float(parts[2]) on a string of digits; any other string has no number
\* in the lines of this model and raises ValueError, which gives None.
Amount(parts) ==
    IF Len(parts) > 2
    THEN IF parts[3] # <<>> /\ \A k \in 1..Len(parts[3]) : DigitValue(parts[3][k]) # None
         THEN Decimal(parts[3])
         ELSE None
    ELSE None

\* HandHistoryParser._rank_map after card_str[0].upper()
RankOfChar(ch) ==
    CASE ch \in {"A", "a"} -> 14 [] ch \in {"K", "k"} -> 13 [] ch \in {"Q", "q"} -> 12
      [] ch \in {"J", "j"} -> 11 [] ch \in {"T", "t"} -> 10
      [] DigitValue(ch) \in 2..9 -> DigitValue(ch)
      [] OTHER -> None

\* HandHistoryParser._suit_map after card_str[1].lower()
SuitOfChar(ch) ==
    CASE ch \in {"h", "H"} -> "H" [] ch \in {"d", "D"} -> "D" [] ch \in {"c", "C"} -> "C"
      [] ch \in {"s", "S"} -> "S" [] OTHER -> "none"

\* _parse_card: a one-element list holding the Card, or the empty list for None
_parse_card(card_str) ==
    IF Len(card_str) # 2 \/ card_str = <<"?", "?">>
    THEN <<>>
    ELSE IF RankOfChar(card_str[1]) = None \/ SuitOfChar(card_str[2]) = "none"
    THEN <<>>
    ELSE <<Card(RankOfChar(card_str[1]), SuitOfChar(card_str[2]))>>

_parse_cards(strs) == ConcatAll([k \in 1..Len(strs) |-> _parse_card(strs[k])])

\* cards[i:i+2] for i in range(0, 6, 2), without the '??' ones (parser.py:164-167)
FlopCards(str) ==
    LET three == [k \in 1..3 |-> SubSeq(str, 2 * k - 1, 2 * k)]
    IN  SelectSeq(three, LAMBDA card : card # <<"?", "?">>)

\* The street after a deal of one card (parser.py:170-175).
NextStreet(street) ==
    CASE street = "preflop" -> "flop"
      [] street = "flop" -> "turn"
      [] street = "turn" -> "river"
      [] OTHER -> street

\* The locals of the loop over hand_data['actions'].
Locals(cc, street, abs, hc) ==
    [community_cards |-> cc, current_street |-> street, actions_by_street |-> abs,
     hole_cards |-> hc]

\* A dealer action (parser.py:157-177).
DealerAction(loc, parts) ==
    IF parts[2] = <<"d", "b">> /\ Len(parts) >= 3 /\ parts[3] # <<"?", "?", "?", "?">>
    THEN LET str == parts[3]
         IN  IF Len(str) = 6
             THEN [loc EXCEPT !.current_street = "flop",
                              !.community_cards = @ \o FlopCards(str)]
             ELSE IF Len(str) = 2
             THEN [loc EXCEPT !.current_street = NextStreet(@),
                              !.community_cards =
                                  IF str # <<"?", "?">> THEN Append(@, str) ELSE @]
             ELSE loc
    ELSE loc

\* A player action (parser.py:178-197).
PlayerAction(loc, parts) ==
    LET player_num == Tail(parts[1])
        action_type == parts[2]
        shown == action_type = <<"s", "m">> /\ Len(parts) >= 3 /\ Len(parts[3]) = 4
        entry == [player |-> player_num, type |-> action_type, amount |-> Amount(parts),
                  street |-> loc.current_street]
    IN  [loc EXCEPT
            !.hole_cards = IF shown
                           THEN Put(@, player_num, <<SubSeq(parts[3], 1, 2), SubSeq(parts[3], 3, 4)>>)
                           ELSE @,
            !.actions_by_street[loc.current_street] = Append(@, entry)]

\* One pass of the loop body (parser.py:154-197).
ProcessAction(loc, parts) ==
    IF Len(parts) >= 2
    THEN IF parts[1] = <<"d">>
         THEN DealerAction(loc, parts)
         ELSE IF parts[1] # <<>> /\ Head(parts[1]) = "p"
         THEN PlayerAction(loc, parts)
         ELSE loc
    ELSE loc

\* hand_data.get('players', []) of the sections of this model.
HandPlayers == <<"Hero", "Villain">>

\* parsed_hand (parser.py:200-209)
ParsedHand(abs, hc, cc) ==
    [players |-> HandPlayers,
     actions |-> abs.preflop \o abs.flop \o abs.turn \o abs.river,
     hole_cards |-> hc,
     community_cards |-> _parse_cards(cc),
     stacks |-> <<>>]

(***************************************************************************)
(* SpecParser: parse_file reads a file of at most MaxSections sections     *)
(* with at most MaxLines action lines in all.  A section has a 'players'   *)
(* entry and may have an 'actions' entry, whose lines are read one by one. *)
(***************************************************************************)
MaxSections == 2

MaxLines == 5

ActionLines ==
    { << <<"d">>, <<"d", "b">>, <<"A", "s", "K", "s", "Q", "s">> >>,
      << <<"d">>, <<"d", "b">>, <<"2", "c">> >>,
      << <<"p", "1">>, <<"c", "b", "r">>, <<"1", "0">> >>,
      << <<"p", "2">>, <<"f">> >>,
      << <<"p", "1">>, <<"s", "m">>, <<"A", "s", "K", "s">> >> }

ParserInit ==
    /\ cards = <<>>
    /\ eval_result = NotCalled
    /\ player_hand = <<>>
    /\ community_cards = <<>>
    /\ outs_result = NoOuts
    /\ SimIdle
    /\ NoDeck
    /\ NoDeal
    /\ NoEquity
    /\ NoEngine
    /\ ParserStart

ParserUnchanged ==
    UNCHANGED <<cards, eval_result, player_hand, community_cards, outs_result, simVars,
                deckVars, dealVars, threads, equityVars, decisionVars>>

\* A section with an 'actions' entry: lines 147-152.
BeginActions ==
    /\ parse_pc = "sections"
    /\ sections_read < MaxSections
    /\ sections_read' = sections_read + 1
    /\ community_strs' = <<>>
    /\ current_street' = "preflop"
    /\ actions_by_street' = NoActions
    /\ hole_cards' = Bound(EmptyMap)
    /\ section_lines' = <<>>
    /\ parse_pc' = "actions"
    /\ UNCHANGED <<parsed_hands, section_log, lines_read>>
    /\ ParserUnchanged

\* One action of hand_data['actions']: lines 153-197.
ReadAction ==
    /\ parse_pc = "actions"
    /\ lines_read < MaxLines
    /\ \E parts \in ActionLines :
          LET loc == ProcessAction(Locals(community_strs, current_street,
                                          actions_by_street, hole_cards.map), parts)
          IN  /\ community_strs' = loc.community_cards
              /\ current_street' = loc.current_street
              /\ actions_by_street' = loc.actions_by_street
              /\ hole_cards' = Bound(loc.hole_cards)
              /\ section_lines' = Append(section_lines, parts)
    /\ lines_read' = lines_read + 1
    /\ UNCHANGED <<parse_pc, parsed_hands, section_log, sections_read>>
    /\ ParserUnchanged

\* The end of the actions: the hand is emitted (lines 199-211).
EmitHand ==
    /\ parse_pc = "actions"
    /\ parsed_hands' = Append(parsed_hands,
                              ParsedHand(actions_by_street, hole_cards.map, community_strs))
    /\ section_log' = Append(section_log, [has_actions |-> TRUE, lines |-> section_lines])
    /\ parse_pc' = "sections"
    /\ UNCHANGED <<community_strs, current_street, actions_by_street, hole_cards,
                   section_lines, lines_read, sections_read>>
    /\ ParserUnchanged

\* A section without an 'actions' entry: lines 147-149 and 199-211.  Reading
\* the unbound local hole_cards raises NameError, which line 216 catches:
\* the section is skipped.
SectionWithoutActions ==
    /\ parse_pc = "sections"
    /\ sections_read < MaxSections
    /\ sections_read' = sections_read + 1
    /\ community_strs' = <<>>
    /\ current_street' = "preflop"
    /\ actions_by_street' = NoActions
    /\ section_lines' = <<>>
    /\ IF hole_cards.bound
       THEN /\ parsed_hands' = Append(parsed_hands, ParsedHand(NoActions, hole_cards.map, <<>>))
            /\ section_log' = Append(section_log, [has_actions |-> FALSE, lines |-> <<>>])
       ELSE UNCHANGED <<parsed_hands, section_log>>
    /\ UNCHANGED <<parse_pc, hole_cards, lines_read>>
    /\ ParserUnchanged

ParserNext == BeginActions \/ ReadAction \/ EmitHand \/ SectionWithoutActions

SpecParser == ParserInit /\ [][ParserNext]_vars

(***************************************************************************)
(* Reference notions of poker, used to state the evaluator's properties.   *)
(***************************************************************************)
FiveCardSubsets(cs) == {S \in SUBSET Elems(cs) : Cardinality(S) = 5}

RanksIn(S) == {c.rank : c \in S}

RankCount(S, r) == Cardinality({c \in S : c.rank = r})

\* The ranks of the straight whose top card is top; the wheel is the 5-high one.
RunRanks(top) == IF top = 5 THEN {ACE, 2, 3, 4, 5} ELSE (top - 4)..top

IsFlush(S) == \E s \in SuitSet : \A c \in S : c.suit = s

IsStraight(S) == \E top \in 5..14 : RanksIn(S) = RunRanks(top)

\* The category of a five-card hand.
Category(S) ==
    LET n(k) == Cardinality({r \in RanksIn(S) : RankCount(S, r) = k})
    IN  IF IsStraight(S) /\ IsFlush(S)
        THEN (IF RanksIn(S) = 10..14 THEN ROYAL_FLUSH ELSE STRAIGHT_FLUSH)
        ELSE IF n(4) = 1 THEN FOUR_OF_A_KIND
        ELSE IF n(3) = 1 /\ n(2) = 1 THEN FULL_HOUSE
        ELSE IF IsFlush(S) THEN FLUSH
        ELSE IF IsStraight(S) THEN STRAIGHT
        ELSE IF n(3) = 1 THEN THREE_OF_A_KIND
        ELSE IF n(2) = 2 THEN TWO_PAIR
        ELSE IF n(2) = 1 THEN PAIR
        ELSE HIGH_CARD

Categories(cs) == {Category(S) : S \in FiveCardSubsets(cs)}

BestCategory(cs) == CHOOSE c \in Categories(cs) : \A d \in Categories(cs) : d <= c

\* The tops of the straights that the cards of suit s hold.
SuitRuns(cs, s) ==
    {top \in 5..14 : RunRanks(top) \subseteq {c.rank : c \in {d \in Elems(cs) : d.suit = s}}}

EvalOk == eval_result.status = "ok"

\* C1: for 5 to 7 distinct cards, evaluate_hand returns the highest category
\* that any 5-card subset of the input achieves.
C1_HighestCategory ==
    EvalOk => eval_result.rank = BestCategory(cards)

\* C5: evaluate_hand returns exactly 5 cards, the cards of the matched
\* category filled up to five with the highest remaining ranks.
C5_FiveCardsHighestKickers ==
    EvalOk =>
        LET h == Elems(eval_result.cards)
            paired == eval_result.rank \in {PAIR, TWO_PAIR, THREE_OF_A_KIND, FOUR_OF_A_KIND}
            matched == IF paired THEN {r \in RanksIn(h) : RankCount(h, r) >= 2} ELSE {}
            kickers == {c \in h : c.rank \notin matched}
            left == {c \in Elems(cards) \ h : c.rank \notin matched}
        IN  /\ Len(eval_result.cards) = 5
            /\ Cardinality(h) = 5
            /\ eval_result.rank \in {HIGH_CARD, PAIR, TWO_PAIR, THREE_OF_A_KIND, FOUR_OF_A_KIND}
                   => \A k \in kickers : \A c \in left : c.rank <= k.rank

\* Most-significant first: a straight from its top card down (the wheel as
\* 5,4,3,2,A), every other hand by (number of cards of the rank, rank)
\* descending, so matched ranks come before kickers.
MostSignificantFirst(hr, h) ==
    LET cnt(i) == Count(RankKey(h), h[i].rank)
    IN  IF hr \in {STRAIGHT, STRAIGHT_FLUSH, ROYAL_FLUSH}
        THEN \/ \A i \in 1..(Len(h) - 1) : h[i].rank = h[i + 1].rank + 1
             \/ RankKey(h) = <<5, 4, 3, 2, ACE>>
        ELSE \A i \in 1..(Len(h) - 1) :
                \/ cnt(i) > cnt(i + 1)
                \/ cnt(i) = cnt(i + 1) /\ h[i].rank >= h[i + 1].rank

\* C6: the card sequence evaluate_hand returns is ordered most-significant
\* first for every category; a heart Royal Flush is returned as A,K,Q,J,T.
C6_MostSignificantFirst ==
    EvalOk => MostSignificantFirst(eval_result.rank, eval_result.cards)

\* C7: three cards of one rank and at least two of another, no four of a
\* kind and no straight flush: Full House of the highest triple and the
\* highest remaining pair, also with two triples or a triple and two pairs.
C7_FullHouseHighestTripleAndPair ==
    LET S == Elems(cards)
        triples == {r \in RanksIn(S) : RankCount(S, r) = 3}
        T == CHOOSE r \in triples : \A q \in triples : q <= r
        rest == {r \in RanksIn(S) \ {T} : RankCount(S, r) >= 2}
        P == CHOOSE r \in rest : \A q \in rest : q <= r
        h == Elems(eval_result.cards)
    IN  ( /\ EvalOk
          /\ triples # {}
          /\ rest # {}
          /\ \A r \in RanksIn(S) : RankCount(S, r) < 4
          /\ BestCategory(cards) < STRAIGHT_FLUSH )
        => /\ eval_result.rank = FULL_HOUSE
           /\ Len(eval_result.cards) = 5
           /\ RankCount(h, T) = 3
           /\ RankCount(h, P) = 2

\* C8: the Ace counts as 1 for straights: cards holding A,2,3,4,5 and no
\* flush, full house, four of a kind or higher straight evaluate to
\* Straight, and to Straight Flush when the five ranks are in one suit.
C8_WheelIsAStraight ==
    LET S == Elems(cards)
    IN  /\ ( EvalOk /\ RunRanks(5) \subseteq RanksIn(S) /\ BestCategory(cards) = STRAIGHT )
            => eval_result.rank = STRAIGHT
        /\ ( EvalOk /\ \E s \in SuitSet : SuitRuns(cards, s) = {5} )
            => eval_result.rank = STRAIGHT_FLUSH

\* C9: when the flush suit holds more than one run of 5 consecutive ranks,
\* evaluate_hand returns the highest run; 9,T,J,Q,K,A of one suit is a
\* Royal Flush, not a King-high Straight Flush.
C9_HighestSuitedRun ==
    \A s \in SuitSet :
        ( EvalOk /\ Cardinality(SuitRuns(cards, s)) > 1 ) =>
            LET top == CHOOSE t \in SuitRuns(cards, s) : \A u \in SuitRuns(cards, s) : u <= t
            IN  /\ eval_result.rank = (IF top = ACE THEN ROYAL_FLUSH ELSE STRAIGHT_FLUSH)
                /\ Elems(eval_result.cards) = {Card(r, s) : r \in RunRanks(top)}

\* A five-card hand shows category hr: it holds the pattern that defines the
\* category (every hand has a high card; a hand that shows a category may
\* show a higher one as well).
Shows(S, hr) ==
    LET n(k) == Cardinality({r \in RanksIn(S) : RankCount(S, r) >= k})
    IN  CASE hr = HIGH_CARD -> TRUE
          [] hr = PAIR -> n(2) >= 1
          [] hr = TWO_PAIR -> n(2) >= 2
          [] hr = THREE_OF_A_KIND -> n(3) >= 1
          [] hr = STRAIGHT -> IsStraight(S)
          [] hr = FLUSH -> IsFlush(S)
          [] hr = FULL_HOUSE -> n(3) >= 1 /\ n(2) >= 2
          [] hr = FOUR_OF_A_KIND -> n(4) >= 1
          [] hr = STRAIGHT_FLUSH -> IsStraight(S) /\ IsFlush(S)
          [] hr = ROYAL_FLUSH -> IsFlush(S) /\ RanksIn(S) = 10..14
          [] OTHER -> FALSE

\* C10: the category evaluate_hand returns is achieved by some 5-card subset
\* of the input (the cards do hold the category it reports), and every
\* returned card is one of the input cards.
C10_CategorySupported ==
    EvalOk =>
        /\ Elems(eval_result.cards) \subseteq Elems(cards)
        /\ \E S \in FiveCardSubsets(cards) : Shows(S, eval_result.rank)

C10_Witness ==
    /\ EvalOk
    /\ Len(cards) = MaxHandSize
    /\ eval_result.rank = STRAIGHT
    /\ BestCategory(cards) = STRAIGHT

RECURSIVE SumOuts(_)
SumOuts(draws) ==
    IF draws = <<>> THEN 0
    ELSE draws[Len(draws)].outs + SumOuts(SubSeq(draws, 1, Len(draws) - 1))

\* No two entries of the draw list share an improving card.
NoSharedCard(draws) ==
    \A i, j \in 1..Len(draws) :
        i # j => draws[i].potential_cards \cap draws[j].potential_cards = {}

\* C4: calculate_outs returns totalOuts <= the sum of the out counts of the
\* returned draws, with equality exactly when no two returned draws share
\* an improving card.
C4_TotalAtMostSum ==
    outs_result.status = "ok" =>
        /\ outs_result.total <= SumOuts(outs_result.draws)
        /\ (outs_result.total = SumOuts(outs_result.draws)) <=> NoSharedCard(outs_result.draws)

StatsSum(r) == r.stats.wins + r.stats.splits + r.stats.losses

C3_CachedResultRepeats ==
    ( pc = "returned" /\ use_cache /\ Scenario \in DOMAIN returned_for ) =>
        /\ sim_result = returned_for[Scenario]
        /\ trials_run = 0

C3_Witness ==
    /\ pc = "returned"
    /\ use_cache
    /\ Scenario \in DOMAIN returned_for
    /\ Cardinality(DOMAIN returned_for) > 1
    /\ community_cards = <<Card(4, "H"), Card(2, "C"), Card(3, "D")>>
    /\ StatsSum(sim_result) # num_simulations

(***************************************************************************)
(* C11: evaluate_hand called with fewer than 5 cards (0 to 4) raises       *)
(* ValueError and returns no category.                                     *)
(***************************************************************************)
C11_FewerThanFiveRaises ==
    ( eval_result # NotCalled /\ Len(cards) < 5 ) =>
        /\ eval_result.status = "ValueError"
        /\ eval_result.rank \notin HIGH_CARD..ROYAL_FLUSH

C11_Witness ==
    /\ Len(cards) = 4
    /\ eval_result.status = "ValueError"

(***************************************************************************)
(* C12: simulate() called with a hole that is not exactly 2 cards, or with *)
(* a board of more than 5 cards, raises ValueError before any trial is     *)
(* run and leaves the result cache as it was.                              *)
(***************************************************************************)
C12_InvalidInputRaisesEarly ==
    [][ ( /\ pc = "idle"
          /\ pc' # "idle"
          /\ ( Len(player_hand') # 2 \/ Len(community_cards') > 5 ) )
        => ( /\ pc' = "raised"
             /\ sim_result'.status = "ValueError"
             /\ trials_run' = 0
             /\ player_scores' = <<>>
             /\ result_cache' = result_cache ) ]_vars

C12_Witness ==
    /\ pc = "raised"
    /\ sim_result.status = "ValueError"
    /\ Len(player_hand) = 2
    /\ Len(community_cards) = 6
    /\ use_cache
    /\ result_cache # EmptyMap

(***************************************************************************)
(* Reference definitions for the outs calculator's claims.                 *)
(***************************************************************************)
OutsOk == outs_result.status = "ok"

DrawIndexes == 1..Len(outs_result.draws)

\* The cards that occur in the improving-card set of some returned draw.
ImprovingCards ==
    {c \in AllCards : \E i \in DrawIndexes : c \in outs_result.draws[i].potential_cards}

(***************************************************************************)
(* C13: the total that calculate_outs returns is the number of distinct    *)
(* cards in the union of the improving-card sets of the draws it returns;  *)
(* a card shared by several draws is counted once.                         *)
(***************************************************************************)
C13_TotalIsUnionSize ==
    OutsOk => outs_result.total = Cardinality(ImprovingCards)

C13_Witness ==
    /\ OutsOk
    /\ outs_result.total > 0
    /\ \E i, j \in DrawIndexes :
          /\ i # j
          /\ outs_result.draws[i].potential_cards
                \cap outs_result.draws[j].potential_cards # {}

(***************************************************************************)
(* C14: for every simple draw returned by calculate_outs (flush_draw,      *)
(* backdoor_flush_draw, open_straight_draw, gutshot_straight_draw,         *)
(* pair_to_set, two_overcards) the out count equals the number of cards in *)
(* the draw's improving-card set.                                          *)
(***************************************************************************)
SimpleDraws ==
    {"flush_draw", "backdoor_flush_draw", "open_straight_draw",
     "gutshot_straight_draw", "pair_to_set", "two_overcards"}

C14_SimpleDrawCountsItsSet ==
    OutsOk =>
        \A i \in DrawIndexes :
            outs_result.draws[i].draw_type \in SimpleDraws =>
                outs_result.draws[i].outs = Cardinality(outs_result.draws[i].potential_cards)

(***************************************************************************)
(* C15: with an empty board, calculate_outs returns only draws of type     *)
(* pair_to_set or two_overcards.                                           *)
(***************************************************************************)
C15_PreflopOnlyPairOrOvercards ==
    ( OutsOk /\ community_cards = <<>> ) =>
        \A i \in DrawIndexes :
            outs_result.draws[i].draw_type \in {"pair_to_set", "two_overcards"}

C15_Witness ==
    /\ OutsOk
    /\ community_cards = <<>>
    /\ \E i \in DrawIndexes : outs_result.draws[i].draw_type = "two_overcards"

(***************************************************************************)
(* C16: calculate_outs never fails: for every hole of exactly 2 cards and  *)
(* every board of 0 to 5 cards (all distinct) it returns a total and a     *)
(* draw list, and when no draw rule fires it returns total 0 with an empty *)
(* list.  NoDrawRuleApplies states that none of the conditions of the      *)
(* detection rules holds for hole and board.                               *)
(***************************************************************************)
NoDrawRuleApplies ==
    LET held == Elems(player_hand \o community_cards)
        suited(s) == Cardinality({c \in held : c.suit = s})
        of_rank(r) == Cardinality({c \in held : c.rank = r})
        ranks == RanksIn(held) \cup (IF ACE \in RanksIn(held) THEN {1} ELSE {})
        paired == {r \in Ranks : of_rank(r) = 2}
    IN  /\ \A s \in SuitSet : suited(s) # 4
        /\ \A s \in SuitSet : ~(suited(s) = 3 /\ Len(community_cards) <= 3)
        /\ \A a \in 1..11 : ~(a..(a + 3) \subseteq ranks)
        /\ \A a \in 1..10 :
              ~(a \in ranks /\ a + 4 \in ranks /\ Cardinality(a..(a + 4) \cap ranks) = 4)
        /\ player_hand[1].rank # player_hand[2].rank
        /\ ~(community_cards = <<>> /\ player_hand[1].rank > 10 /\ player_hand[2].rank > 10)
        /\ \A r \in Ranks : of_rank(r) # 3
        /\ paired = {}

C16_NeverFails ==
    outs_result # NoOuts =>
        /\ OutsOk
        /\ outs_result.total \in 0..Cardinality(AllCards)
        /\ outs_result.draws \in Seq([draw_type : STRING, outs : Nat,
                                       potential_cards : SUBSET AllCards])
        /\ NoDrawRuleApplies => ( outs_result.total = 0 /\ outs_result.draws = <<>> )

C16_Witness ==
    /\ OutsOk
    /\ Len(community_cards) = 4
    /\ NoDrawRuleApplies
    /\ outs_result.total = 0
    /\ outs_result.draws = <<>>

(***************************************************************************)
(* C19: after any sequence of reset, shuffle and successful draw           *)
(* operations the deck holds no duplicate card, and the cards returned by  *)
(* draws since the last reset together with the cards still in the deck    *)
(* are exactly the cards of the full deck, each once; right after reset    *)
(* the deck holds them all.                                                *)
(***************************************************************************)
C19_DeckAndDrawnAreTheFullDeck ==
    LET dealt == drawn_since_reset \o deck_cards
    IN  /\ Cardinality(Elems(deck_cards)) = Len(deck_cards)
        /\ Len(dealt) = Len(NewDeck)
        /\ Elems(dealt) = Elems(NewDeck)
        /\ drawn_since_reset = <<>> => Elems(deck_cards) = Elems(NewDeck)

C19_Witness ==
    /\ draw_result.status = "ok"
    /\ Len(draw_result.cards) = 2
    /\ Len(drawn_since_reset) = 3
    /\ Len(deck_cards) = Len(NewDeck) - 3

(***************************************************************************)
(* C20: every Deck.draw(n) that does not fail returns exactly n cards, the *)
(* first n cards of the deck in order, and removes exactly those from the  *)
(* deck; draw(n) with n greater than the number of remaining cards fails   *)
(* and leaves the deck unchanged.                                          *)
(***************************************************************************)
C20_DrawTakesFirstN ==
    [][ ( draw_result' # draw_result /\ draw_result'.status # "none" ) =>
          LET n == draw_result'.n
          IN  IF n > Len(deck_cards)
              THEN /\ draw_result'.status = "ValueError"
                   /\ deck_cards' = deck_cards
              ELSE /\ draw_result'.status = "ok"
                   /\ Len(draw_result'.cards) = n
                   /\ draw_result'.cards = SubSeq(deck_cards, 1, n)
                   /\ deck_cards' = SubSeq(deck_cards, n + 1, Len(deck_cards)) ]_vars

(***************************************************************************)
(* C17: in every simulation trial the 2 hole cards, the given board cards, *)
(* the board cards dealt to complete the board and the two cards of every  *)
(* opponent are pairwise distinct cards of the deck, the completed board   *)
(* has exactly 5 cards, and the remaining deck computed once from hole and *)
(* board (the deck minus the used cards) is not altered by any trial.      *)
(***************************************************************************)
TrialCards ==
    player_hand \o community_cards \o new_community \o ConcatAll(opponent_hands)

C18_CacheWritesIdempotent ==
    /\ [][ \A k \in DOMAIN result_cache :
              k \in DOMAIN result_cache' /\ result_cache'[k] = result_cache[k] ]_vars
    /\ [] ( \A t \in DOMAIN threads :
              ( threads[t].pc = "done" /\ SharedKey \in DOMAIN result_cache ) =>
                  result_cache[SharedKey] = threads[t].result )

(***************************************************************************)
(* C25: with the oracle returning an integer where lower is stronger, a    *)
(* trial is tallied as a win exactly when the player's score is strictly   *)
(* lower than every opponent's score, as a split exactly when it equals    *)
(* the lowest opponent score, and as a loss otherwise; exactly one of the  *)
(* three counters grows by one per trial.                                  *)
(***************************************************************************)
BeatsAll(i) ==
    \A j \in 1..Len(opponent_scores[i]) : player_scores[i] < opponent_scores[i][j]

TiesBest(i) ==
    /\ \A j \in 1..Len(opponent_scores[i]) : player_scores[i] <= opponent_scores[i][j]
    /\ \E j \in 1..Len(opponent_scores[i]) : player_scores[i] = opponent_scores[i][j]

C25_TallyPerTrial ==
    [][ ( pc = "simulating" /\ pc' = "simulating" /\ batch_start' # batch_start ) =>
          LET trials == 1..Len(player_scores)
              won == {i \in trials : BeatsAll(i)}
              tied == {i \in trials : TiesBest(i)}
          IN  /\ stats'.wins = stats.wins + Cardinality(won)
              /\ stats'.splits = stats.splits + Cardinality(tied)
              /\ stats'.losses = stats.losses + Cardinality(trials \ (won \cup tied))
              /\ StatsSum([stats |-> stats']) = StatsSum([stats |-> stats]) + Len(player_scores)
              /\ Len(player_scores) > 0 ]_vars

C25_Witness ==
    /\ pc = "simulating"
    /\ num_opponents = 2
    /\ batch_start = 2
    /\ stats.wins = 1
    /\ stats.losses = 1

(***************************************************************************)
(* C26: straight-draw detection treats the Ace as low as well as high:     *)
(* when hole plus board hold A,2,3,4 and no 5, an open_straight_draw whose *)
(* improving cards are the fives is returned, and when they hold A,2,3,5   *)
(* (or A,2,4,5 / A,3,4,5) and not the missing rank, a                      *)
(* gutshot_straight_draw on the missing rank is returned.                  *)
(***************************************************************************)
HeldRanks == RanksIn(Elems(player_hand \o community_cards))

HasDraw(type, ranks) ==
    \E i \in DrawIndexes :
        /\ outs_result.draws[i].draw_type = type
        /\ RanksIn(outs_result.draws[i].potential_cards) = ranks

C26_AceLowStraightDraws ==
    OutsOk =>
        /\ ( {ACE, 2, 3, 4} \subseteq HeldRanks /\ 5 \notin HeldRanks )
              => HasDraw("open_straight_draw", {5})
        /\ \A missing \in 2..4 :
              ( ({ACE, 2, 3, 4, 5} \ {missing}) \subseteq HeldRanks /\ missing \notin HeldRanks )
                  => HasDraw("gutshot_straight_draw", {missing})

(***************************************************************************)
(* C27: the improving-card set of every DrawInfo returned by               *)
(* calculate_outs is disjoint from the hole and board cards.               *)
(***************************************************************************)
C27_OutsAreNotHeld ==
    OutsOk =>
        \A i \in DrawIndexes :
            outs_result.draws[i].potential_cards
                \cap Elems(player_hand \o community_cards) = {}

(***************************************************************************)
(* C21: the equity table has an entry for the canonical notation of every  *)
(* two-card starting hand (13 pairs, 78 suited and 78 offsuit rank         *)
(* combinations, 169 keys), so get_preflop_equity never falls back to the  *)
(* default for a valid hand.                                               *)
(***************************************************************************)
ValidStartingHand == equity_hand[1] # equity_hand[2]

C21_TableCoversEveryHand ==
    ( ValidStartingHand /\ equity_result # NotAsked ) =>
        get_hand_notation(equity_hand[1], equity_hand[2]) \in DOMAIN PREFLOP_EQUITY_MAP

(***************************************************************************)
(* C22: get_hand_notation is independent of the order of its arguments;    *)
(* the higher rank is written first; equal ranks give the two-character    *)
(* pair notation; otherwise the suffix is "s" exactly when both cards have *)
(* the same suit and "o" otherwise.                                        *)
(***************************************************************************)
CanonicalNotation(c1, c2) ==
    LET hi == IF c1.rank >= c2.rank THEN c1.rank ELSE c2.rank
        lo == IF c1.rank >= c2.rank THEN c2.rank ELSE c1.rank
        suffix == CASE c1.rank = c2.rank -> ""
                    [] c1.rank # c2.rank /\ c1.suit = c2.suit -> "s"
                    [] OTHER -> "o"
    IN  (RankValue(hi) \o RankValue(lo)) \o suffix

C22_NotationIsCanonical ==
    notation_result # NotAsked =>
        /\ notation_result.value = get_hand_notation(equity_hand[2], equity_hand[1])
        /\ notation_result.value = CanonicalNotation(equity_hand[1], equity_hand[2])

C22_Witness ==
    /\ equity_hand = <<Card(13, "D"), Card(ACE, "H")>>
    /\ notation_result = Got("AKo")

(***************************************************************************)
(* C23: get_preflop_equity never fails for any two cards: it returns the   *)
(* table value when the notation of the hand is a key of the table and the *)
(* default 0.5 (500 thousandths) otherwise.                                *)
(***************************************************************************)
C23_TableValueOrDefault ==
    equity_result # NotAsked =>
        LET key == CanonicalNotation(equity_hand[1], equity_hand[2])
        IN  /\ equity_result.status = "ok"
            /\ key \in DOMAIN PREFLOP_EQUITY_MAP => equity_result.value = PREFLOP_EQUITY_MAP[key]
            /\ key \notin DOMAIN PREFLOP_EQUITY_MAP => equity_result.value = 500

C23_Witness ==
    /\ equity_result = Got(500)
    /\ equity_hand = <<Card(8, "H"), Card(13, "H")>>

(***************************************************************************)
(* C24: whenever recommend_move returns Raise, for a win probability in    *)
(* [0,1] and non-negative pot_size, current_bet and stack_size, the bet    *)
(* size is not None and strictly greater than the current_bet.             *)
(***************************************************************************)
C24_RaiseExceedsCurrentBet ==
    ( decision # NotAsked /\ decision.move.action = RAISE ) =>
        /\ decision.move.bet_size # None
        /\ decision.move.bet_size > decision.game_state.current_bet * 100

(***************************************************************************)
(* C28: after any sequence of adjust_strategy calls the thresholds equal   *)
(* those of a freshly constructed engine after only the last call of the   *)
(* sequence; adjust_strategy("balanced") leaves the default thresholds.    *)
(***************************************************************************)
C28_OnlyLastStyleCounts ==
    last_style # "none" =>
        thresholds = adjust_strategy(DefaultThresholds, last_style)

(***************************************************************************)
(* C29: the hole_cards map of each parsed hand contains only cards         *)
(* revealed by showdown ('sm') actions of that same hand section; a        *)
(* section without an 'actions' entry is emitted with an empty map and     *)
(* never carries over hole cards recorded for an earlier section.          *)
(***************************************************************************)
IsShowdownOf(parts, player_num, shown) ==
    /\ Len(parts) >= 3
    /\ parts[1] = <<"p">> \o player_num
    /\ parts[2] = <<"s", "m">>
    /\ Len(parts[3]) = 4
    /\ shown = <<SubSeq(parts[3], 1, 2), SubSeq(parts[3], 3, 4)>>

C29_HoleCardsOfOwnSection ==
    \A i \in 1..Len(parsed_hands) :
        LET shown == parsed_hands[i].hole_cards
            lines == section_log[i].lines
        IN  /\ \A p \in DOMAIN shown :
                  \E k \in 1..Len(lines) : IsShowdownOf(lines[k], p, shown[p])
            /\ ~section_log[i].has_actions => shown = EmptyMap

(***************************************************************************)
(* C30: for every sequence of action lines of a section, malformed board   *)
(* deals included, the emitted actions list keeps the player actions in    *)
(* the order in which they appear in the file, and the street attached to  *)
(* successive actions never moves backwards in the order preflop, flop,    *)
(* turn, river.                                                            *)
(***************************************************************************)
IsPlayerLine(parts) ==
    Len(parts) >= 2 /\ parts[1] # <<>> /\ Head(parts[1]) = "p"

StreetIndex(street) == CHOOSE k \in 1..Len(Streets) : Streets[k] = street

C30_ActionsInFileOrder ==
    \A i \in 1..Len(parsed_hands) :
        LET acts == parsed_hands[i].actions
            file == SelectSeq(section_log[i].lines, IsPlayerLine)
        IN  /\ Len(acts) = Len(file)
            /\ \A k \in 1..Len(acts) :
                  /\ acts[k].player = Tail(file[k][1])
                  /\ acts[k].type = file[k][2]
            /\ \A k \in 1..(Len(acts) - 1) :
                  StreetIndex(acts[k].street) <= StreetIndex(acts[k + 1].street)

====
